---- MODULE Spec2Model ----
(***************************************************************************)
(* Workflow orchestration engine of fastapi-kafka-transposer:              *)
(*   - WorkflowDatabaseService (workflow lookup and cache),                *)
(*   - WorkflowService (start_job, process_response, _advance_workflow),   *)
(*   - TranslationResponseHandler (futures keyed by source_id),            *)
(*   - the /transcribe-and-translate and /translate request handlers.      *)
(* Every coroutine is cut at its await points: one action per segment.     *)
(***************************************************************************)
EXTENDS Integers, Sequences, FiniteSets, Bags, TLC

\* ------------------------------------------------------------------ bounds
\* longest workflow the store ever holds
MaxSteps == 3
\* number of times the workflow tables are rewritten or the cache cleared
MaxStoreChanges == 2
\* messages a consumer loop polls on one topic
MaxMessages == 2
\* messages handed to the producer by send_message
MaxSends == 3
\* futures register_request creates
MaxFutures == 3

\* ------------------------------------------------------------- vocabulary
None == "None"
\* a key that a message does not carry
Absent == "<absent>"

IN_PROGRESS == "in_progress"
DONE == "done"
ERROR == "error"
JobStatus == {IN_PROGRESS, DONE, ERROR}

WorkflowNames == {"general"}
JobIds == {"j1"}
\* source_ids of translation jobs (uuid4, router.py:238)
TranslationIds == {"t1"}
\* identifiers that match no stored job
UnknownIds == {"zz"}
\* the source_ids a future can be registered under: register_request takes
\* any source_id
WaiterIds == TranslationIds \cup JobIds
\* one consumer loop per response topic
ResponseTopics == {"whisper_response", "generic_translate_response"}

\* config.py WORKFLOW_CONFIG["general"]; longer workflows repeat the two
\* stages, as "peertube" repeats its first stage as its last
general_steps ==
    << [topic |-> "whisper", response_topic |-> "whisper_response"],
       [topic |-> "generic_translate", response_topic |-> "generic_translate_response"] >>

StepAt(i) == general_steps[((i - 1) % Len(general_steps)) + 1]

\* rows of workflow_steps of a workflow with n steps, as populate_workflows writes them
StepRows(n) ==
    { [step_order |-> i - 1, topic |-> StepAt(i).topic,
       response_topic |-> StepAt(i).response_topic] : i \in 1..n }

\* the name start_translation_job looks up (workflow_service.py:87)
TranslationWorkflow == "translation"
\* the name the route of translations gives its jobs (populate_workflows.py:41)
TranslationOnly == "translation_only"
\* the names a lookup is made under, and the names of the stored workflows
StoreNames == WorkflowNames \cup {TranslationWorkflow, TranslationOnly}

\* a row of workflow_configurations with its steps; exists = FALSE: no such row
NoWorkflowRow == [exists |-> FALSE, is_active |-> FALSE, steps |-> {}]
WorkflowRows ==
    {NoWorkflowRow} \cup
    { [exists |-> TRUE, is_active |-> TRUE, steps |-> StepRows(n)] : n \in 0..MaxSteps }

\* the one-step workflow of translations (config.py:23-27)
translation_only_row ==
    [exists |-> TRUE, is_active |-> TRUE,
     steps |-> { [step_order |-> 0, topic |-> general_steps[2].topic,
                  response_topic |-> general_steps[2].response_topic] }]

\* the value get_workflow_config returns: found = FALSE is Python's None
NoWorkflow == [found |-> FALSE, steps |-> << >>]

\* rows the registry can meet besides: workflows switched off (is_active false)
RegistryRows ==
    WorkflowRows \cup
    { [exists |-> TRUE, is_active |-> FALSE, steps |-> StepRows(n)] : n \in 1..MaxSteps }

\* route_configurations (populate_workflows.py ROUTE_CONFIGS): the route of
\* translations; exists = FALSE: no such row, and the None get_route_config returns
RoutePaths == {"/translate"}
NoRouteRow == [exists |-> FALSE, is_active |-> FALSE, workflow_name |-> None]
RouteRows ==
    {NoRouteRow} \cup
    { [exists |-> TRUE, is_active |-> a, workflow_name |-> "translation_only"] :
        a \in BOOLEAN }

\* coroutines that look something up in the registry at the same time
Callers == {"a", "b"}
\* coroutines that call send_message at the same time
Senders == {"s1", "s2"}

\* ---------------------------------------------------- str(int) / int(str)
\* workflow_step is a String column: decimal digits, most significant first
RECURSIVE str(_)
str(n) == IF n < 10 THEN << n >> ELSE Append(str(n \div 10), n % 10)

RECURSIVE int(_)
int(s) == IF Len(s) = 1 THEN s[1] ELSE 10 * int(SubSeq(s, 1, Len(s) - 1)) + s[Len(s)]

\* ------------------------------------------------------------------ state
VARIABLES
    wf_table,        \* workflow_configurations joined with workflow_steps, by name
    workflow_cache,  \* WorkflowDatabaseService._workflow_cache
    job_table,       \* committed rows of transcribe_and_translate, by source_id
    req,             \* position of the request handler that created each job
    pc,              \* position of each consumer loop's handler invocation
    local,           \* the handler's session: the job object it loaded, the message
    published,       \* bag of messages handed to the producer
    store_changes,   \* how often the tables were rewritten / the cache cleared
    handled,         \* history: responses handled one after another, per job
    answered,        \* history: the response topics a job's responses advanced it from
    dropped,         \* history: a response was dropped and none delivered since
    translation_jobs,   \* committed rows of translation_jobs, by source_id
    pending_requests,   \* TranslationResponseHandler._pending_requests
    futures,            \* the asyncio futures register_request created
    treq,               \* each /translate request handler: position and locals
    handed,             \* history: the payload handle_response was first given, per job
    route_table,        \* route_configurations, by route_path
    route_cache,        \* WorkflowDatabaseService._route_cache
    lookups,            \* each caller of the registry: position and locals
    settled,            \* history: the workflows returned since the last clear_cache, by name
    fresh,              \* history: "yes" from clear_cache to the next call for the name,
                        \* "stale" once a row older than the store then is cached
    handlers,           \* KafkaService.handlers
    consumers,          \* KafkaService.consumers
    consumer_tasks,     \* KafkaService.consumer_tasks
    _running,           \* KafkaService._running
    loops,              \* each _consume_messages task: position and locals
    polling,            \* the executor thread of a topic is inside consumer.poll
    log,                \* history: the messages polled on each topic and how far each got
    stopper,            \* the call of stop_all_consumers: position
    closed,             \* how often close() was called on each topic's consumer
    producer,           \* KafkaService.producer is set
    outbox,             \* the messages handed to producer.produce, each with its
                        \* delivery report and the future of its send_message call
    sends,              \* each caller of send_message: position and locals
    undelivered         \* history: the dispatches whose delivery report was an error

correlator_vars == << translation_jobs, pending_requests, futures, treq, handed >>

registry_vars == << route_table, route_cache, lookups, settled, fresh >>

gateway_vars == << handlers, consumers, consumer_tasks, _running, loops, polling,
                   log, stopper, closed >>

producer_vars == << producer, outbox, sends, undelivered >>

vars == << wf_table, workflow_cache, job_table, req, pc, local, published,
           store_changes, handled, answered, dropped,
           translation_jobs, pending_requests, futures, treq, handed,
           route_table, route_cache, lookups, settled, fresh,
           handlers, consumers, consumer_tasks, _running, loops, polling,
           log, stopper, closed,
           producer, outbox, sends, undelivered >>

\* ------------------------------------------------------------- job records
\* models.py TranscriptionAndTranslationJob: the columns the engine touches
NoJob ==
    [exists |-> FALSE, source_id |-> None, source_type |-> None, source_status |-> None,
     workflow_step |-> << >>, transcription |-> None, translations |-> None,
     language |-> None]

\* the row a request handler inserts (router.py:122-133, 169-178); the column
\* default of workflow_step is "0"
NewJob(source_id, name) ==
    [exists |-> TRUE, source_id |-> source_id, source_type |-> name,
     source_status |-> IN_PROGRESS,
     workflow_step |-> str(0), transcription |-> None, translations |-> None,
     language |-> "en"]

\* a commit that is never issued: the stored row stays as it is
commit_lost(row, loaded, job) == row

\* session.commit() with expire_on_commit=False: the unit of work writes the
\* columns of `job` that differ from what the session loaded, and leaves the
\* other columns of the stored row as they are now
commit(row, loaded, job) ==
    [c \in DOMAIN row |-> IF job[c] # loaded[c] THEN job[c] ELSE row[c]]

\* ---------------------------------------------------------------- messages
\* a decoded broker message: the keys the handlers look at, Absent when the
\* message does not carry the key
Messages(ids, outputs, translations) ==
    [source_id : ids \cup UnknownIds \cup {Absent},
     output : {Absent} \cup outputs,
     translations : {Absent} \cup translations,
     language : {Absent, "xx"}]

\* responses as the job state machine sees them: the identifier alone decides
ControlMessages ==
    { m \in Messages(JobIds, {}, {}) : m.language = Absent }

\* responses with every combination of result fields
PayloadMessages ==
    { m \in Messages(JobIds, {"hello", "bye"}, {"hola"}) : m.source_id \in JobIds }

\* responses as the translation branch sees them
TranslationMessages ==
    { m \in Messages(TranslationIds, {}, {"hola", "salut"}) : m.language = Absent }

NoMessage == [source_id |-> Absent, output |-> Absent, translations |-> Absent,
              language |-> Absent]

\* "key in data"
Has(data, key) == data[key] # Absent

\* a message handed to the producer: send_message(topic, message, key)
Dispatch(topic, message, key) == [topic |-> topic, key |-> key, value |-> message]

NoDispatch == << >>

\* ------------------------------------------------- WorkflowDatabaseService
\* sorted(workflow.steps, key=lambda s: s.step_order)
RECURSIVE sorted(_)
sorted(rows) ==
    IF rows = {} THEN << >>
    ELSE LET first == CHOOSE r \in rows : \A q \in rows : r.step_order <= q.step_order
         IN  << first >> \o sorted(rows \ {first})

\* get_workflow_config: the value returned and the cache afterwards
get_workflow_config(cache, table, workflow_name) ==
    IF cache[workflow_name].found
    THEN [workflow |-> cache[workflow_name], cache |-> cache]
    ELSE IF ~(table[workflow_name].exists /\ table[workflow_name].is_active)
    THEN [workflow |-> NoWorkflow, cache |-> cache]
    ELSE LET ordered == sorted(table[workflow_name].steps)
             workflow_config ==
                 [found |-> TRUE,
                  steps |-> [i \in 1..Len(ordered) |->
                                [topic |-> ordered[i].topic,
                                 response_topic |-> ordered[i].response_topic]]]
         IN  [workflow |-> workflow_config,
              cache |-> [cache EXCEPT ![workflow_name] = workflow_config]]

\* ---------------------------------------------------------- WorkflowService
\* _send_to_step: the message produced for steps[step_index], none when the
\* index is past the end (Python indexes from 0, sequences from 1)
_send_to_step(source_id, step_index, workflow) ==
    IF step_index >= Len(workflow.steps)
    THEN NoDispatch
    ELSE << Dispatch(workflow.steps[step_index + 1].topic,
                     [source_id |-> source_id], source_id) >>

\* the merge of the earlier revision (services/transcription.py:112): data.get("output")
\* replaces the field whether or not the response carries it
_update_job_overwrite(job, data) ==
    [job EXCEPT
        !.transcription = IF Has(data, "output") THEN data.output ELSE None,
        !.translations = IF Has(data, "translations") THEN data.translations ELSE @]

\* _update_job_with_response: the job object after the merge
_update_job_with_response(job, data) ==
    [job EXCEPT
        !.transcription = IF Has(data, "output") THEN data.output ELSE @,
        !.translations = IF Has(data, "translations") THEN data.translations ELSE @]

\* the completion test taken one step too early
workflow_complete_early(next_step, steps) == next_step >= Len(steps) - 1

\* "if next_step >= len(steps)": the workflow is complete
workflow_complete(next_step, steps) == next_step >= Len(steps)

\* the job object never advances: the next step is dispatched, the cursor stays
_advance_workflow_stay(job, workflow) ==
    IF ~workflow.found
    THEN [job |-> [job EXCEPT !.source_status = ERROR], next_step |-> -1]
    ELSE LET next_step == int(job.workflow_step) + 1
         IN  IF workflow_complete(next_step, workflow.steps)
             THEN [job |-> [job EXCEPT !.source_status = DONE], next_step |-> -1]
             ELSE [job |-> job, next_step |-> next_step]

\* an _advance_workflow that returns without a word when the workflow does
\* not resolve: the status stays as it is
_advance_workflow_silent(job, workflow) ==
    IF ~workflow.found
    THEN [job |-> job, next_step |-> -1]
    ELSE LET next_step == int(job.workflow_step) + 1
         IN  IF workflow_complete(next_step, workflow.steps)
             THEN [job |-> [job EXCEPT !.source_status = DONE], next_step |-> -1]
             ELSE [job |-> [job EXCEPT !.workflow_step = str(next_step)],
                   next_step |-> next_step]

\* _advance_workflow up to its commit: the job object afterwards and the step
\* to dispatch to (-1: nothing is dispatched)
_advance_workflow(job, workflow) ==
    IF ~workflow.found
    THEN [job |-> [job EXCEPT !.source_status = ERROR], next_step |-> -1]
    ELSE LET current_step == int(job.workflow_step)
             next_step == current_step + 1
         IN  IF workflow_complete(next_step, workflow.steps)
             THEN [job |-> [job EXCEPT !.source_status = DONE], next_step |-> -1]
             ELSE [job |-> [job EXCEPT !.workflow_step = str(next_step)],
                   next_step |-> next_step]

\* ------------------------------------------------------------------- Init
NoLocal == [source_id |-> Absent, data |-> NoMessage, job |-> NoJob, out |-> NoDispatch]

InitEngine ==
    /\ workflow_cache = [n \in StoreNames |-> NoWorkflow]
    /\ job_table = [j \in JobIds |-> NoJob]
    /\ req = [j \in JobIds |-> "none"]
    /\ pc = [c \in ResponseTopics |-> "poll"]
    /\ local = [c \in ResponseTopics |-> NoLocal]
    /\ published = EmptyBag
    /\ store_changes = 0
    /\ handled = [j \in JobIds |-> -1]
    /\ answered = [j \in JobIds |-> {}]
    /\ dropped = FALSE

\* no handler invocation holds a job object of job j
Quiet(j) == \A c \in ResponseTopics : local[c].source_id # j

\* handled[j] counts up to one past the longest workflow and stays there
Count(n) == IF n < 0 THEN -1 ELSE IF n > MaxSteps THEN n ELSE n + 1

\* ------------------------------------- the store's authority and the cache
\* populate_workflows.py and whoever else rewrites the workflow tables
StoreUpdate(name, row) ==
    /\ store_changes < MaxStoreChanges
    /\ row # wf_table[name]
    /\ wf_table' = [wf_table EXCEPT ![name] = row]
    /\ store_changes' = store_changes + 1
    /\ UNCHANGED << workflow_cache, job_table, req, pc, local, published, handled, answered, dropped >>
    /\ UNCHANGED correlator_vars
    /\ UNCHANGED << registry_vars, gateway_vars, producer_vars >>

\* WorkflowDatabaseService.clear_cache
clear_cache ==
    /\ store_changes < MaxStoreChanges
    /\ workflow_cache' = [n \in StoreNames |-> NoWorkflow]
    /\ route_cache' = [r \in RoutePaths |-> NoRouteRow]
    /\ store_changes' = store_changes + 1
    /\ handled' = [j \in JobIds |-> -1]
    /\ settled' = [n \in StoreNames |-> {}]
    /\ fresh' = [n \in StoreNames |-> "yes"]
    /\ lookups' = [p \in Callers |->
                      [lookups[p] EXCEPT
                          !.expect = {},
                          !.old = /\ lookups[p].pc = "fetched"
                                  /\ lookups[p].kind = "workflow"
                                  /\ lookups[p].row # wf_table[lookups[p].name]]]
    /\ UNCHANGED << wf_table, job_table, req, pc, local, published >>
    /\ UNCHANGED << answered, dropped, correlator_vars >>
    /\ UNCHANGED << route_table, gateway_vars, producer_vars >>

\* ------------------------------- WorkflowDatabaseService, call by call
\* a caller of the registry: pc is "idle", "query" (the statement is on its
\* way to the store) or "fetched" (the store has answered, the coroutine has
\* not run on yet); result is what its last call returned; expect and old
\* are history: the workflows returned for the name when the call began,
\* and whether the row read is older than the store was at the last clear_cache
NoLookup ==
    [pc |-> "idle", kind |-> None, name |-> None, row |-> None, expect |-> {},
     old |-> FALSE, result |-> None]

InitRegistry ==
    /\ route_table = [r \in RoutePaths |->
                        [exists |-> TRUE, is_active |-> TRUE,
                         workflow_name |-> "translation_only"]]
    /\ route_cache = [r \in RoutePaths |-> NoRouteRow]
    /\ lookups = [p \in Callers |-> NoLookup]
    /\ settled = [n \in StoreNames |-> {}]
    /\ fresh = [n \in StoreNames |-> "no"]

\* whoever rewrites route_configurations
RouteUpdate(route_path, row) ==
    /\ store_changes < MaxStoreChanges
    /\ row # route_table[route_path]
    /\ route_table' = [route_table EXCEPT ![route_path] = row]
    /\ store_changes' = store_changes + 1
    /\ UNCHANGED << wf_table, workflow_cache, job_table, req, pc, local, published,
                    handled, answered, dropped >>
    /\ UNCHANGED << route_cache, lookups, settled, fresh >>
    /\ UNCHANGED << correlator_vars, gateway_vars, producer_vars >>

\* get_workflow_config is called: a cached workflow is returned at once,
\* otherwise the select is issued and the coroutine waits for the store
get_workflow_config_call(p, workflow_name) ==
    /\ lookups[p].pc = "idle"
    /\ IF workflow_cache[workflow_name].found
       THEN /\ lookups' = [lookups EXCEPT ![p] =
                   [NoLookup EXCEPT !.kind = "workflow", !.name = workflow_name,
                                    !.result = workflow_cache[workflow_name]]]
            /\ settled' = [settled EXCEPT
                   ![workflow_name] = @ \cup {workflow_cache[workflow_name]}]
       ELSE /\ lookups' = [lookups EXCEPT ![p] =
                   [NoLookup EXCEPT !.pc = "query", !.kind = "workflow",
                                    !.name = workflow_name,
                                    !.expect = settled[workflow_name]]]
            /\ UNCHANGED settled
    /\ fresh' = [fresh EXCEPT ![workflow_name] = "no"]
    /\ UNCHANGED << wf_table, workflow_cache, job_table, req, pc, local, published,
                    store_changes, handled, answered, dropped >>
    /\ UNCHANGED << route_table, route_cache >>
    /\ UNCHANGED << correlator_vars, gateway_vars, producer_vars >>

\* get_route_config(cache, table, route_path): the value returned and the
\* cache afterwards; only a route that was found is cached
get_route_config(cache, table, route_path) ==
    IF cache[route_path].exists
    THEN [route_config |-> cache[route_path], cache |-> cache]
    ELSE IF table[route_path].exists /\ table[route_path].is_active
    THEN [route_config |-> table[route_path],
          cache |-> [cache EXCEPT ![route_path] = table[route_path]]]
    ELSE [route_config |-> NoRouteRow, cache |-> cache]

\* get_route_config is called: cached, or the select is issued
get_route_config_call(p, route_path) ==
    /\ lookups[p].pc = "idle"
    /\ lookups' = [lookups EXCEPT ![p] =
           IF route_cache[route_path].exists
           THEN [NoLookup EXCEPT !.kind = "route", !.name = route_path,
                                 !.result = route_cache[route_path]]
           ELSE [NoLookup EXCEPT !.pc = "query", !.kind = "route",
                                 !.name = route_path]]
    /\ UNCHANGED << wf_table, workflow_cache, job_table, req, pc, local, published,
                    store_changes, handled, answered, dropped >>
    /\ UNCHANGED << route_table, route_cache, settled, fresh >>
    /\ UNCHANGED << correlator_vars, gateway_vars, producer_vars >>

\* a select that reads the cache in place of the tables
get_all_response_topics_cached(table) ==
    UNION { { workflow_cache[n].steps[i].response_topic :
                i \in 1..Len(workflow_cache[n].steps) } : n \in StoreNames }

\* get_all_response_topics: select distinct response_topic of the steps
\* joined to the workflows with is_active
get_all_response_topics(table) ==
    UNION { { step.response_topic : step \in table[n].steps } :
            n \in { m \in DOMAIN table : table[m].exists /\ table[m].is_active } }

\* get_all_response_topics is called: the select is issued
get_all_response_topics_call(p) ==
    /\ lookups[p].pc = "idle"
    /\ lookups' = [lookups EXCEPT ![p] = [NoLookup EXCEPT !.pc = "query", !.kind = "topics"]]
    /\ UNCHANGED << wf_table, workflow_cache, job_table, req, pc, local, published,
                    store_changes, handled, answered, dropped >>
    /\ UNCHANGED << route_table, route_cache, settled, fresh >>
    /\ UNCHANGED << correlator_vars, gateway_vars, producer_vars >>

\* session.execute(stmt): the store evaluates the statement on the tables as
\* they are now
execute(p) ==
    /\ lookups[p].pc = "query"
    /\ lookups' = [lookups EXCEPT
           ![p].pc = "fetched",
           ![p].row = CASE lookups[p].kind = "workflow" -> wf_table[lookups[p].name]
                        [] lookups[p].kind = "route" -> route_table[lookups[p].name]
                        [] OTHER -> get_all_response_topics(wf_table)]
    /\ UNCHANGED << wf_table, workflow_cache, job_table, req, pc, local, published,
                    store_changes, handled, answered, dropped >>
    /\ UNCHANGED << route_table, route_cache, settled, fresh >>
    /\ UNCHANGED << correlator_vars, gateway_vars, producer_vars >>

\* get_workflow_config runs on with the row the store returned: None for no
\* active row, otherwise the workflow is built, cached and returned
get_workflow_config_resume(p) ==
    /\ lookups[p].pc = "fetched"
    /\ lookups[p].kind = "workflow"
    /\ LET workflow_name == lookups[p].name
           got == get_workflow_config(
                      [workflow_cache EXCEPT ![workflow_name] = NoWorkflow],
                      [wf_table EXCEPT ![workflow_name] = lookups[p].row],
                      workflow_name)
       IN  /\ workflow_cache' =
                 IF got.workflow.found
                 THEN [workflow_cache EXCEPT ![workflow_name] = got.cache[workflow_name]]
                 ELSE workflow_cache
           /\ settled' =
                 IF got.workflow.found
                 THEN [settled EXCEPT ![workflow_name] = @ \cup {got.workflow}]
                 ELSE settled
           /\ fresh' =
                 IF got.workflow.found /\ lookups[p].old /\ fresh[workflow_name] = "yes"
                 THEN [fresh EXCEPT ![workflow_name] = "stale"]
                 ELSE fresh
           /\ lookups' = [lookups EXCEPT ![p] =
                 [NoLookup EXCEPT !.kind = "workflow", !.name = workflow_name,
                                  !.result = got.workflow]]
    /\ UNCHANGED << wf_table, job_table, req, pc, local, published,
                    store_changes, handled, answered, dropped >>
    /\ UNCHANGED << route_table, route_cache >>
    /\ UNCHANGED << correlator_vars, gateway_vars, producer_vars >>

\* get_route_config runs on with the row the store returned
get_route_config_resume(p) ==
    /\ lookups[p].pc = "fetched"
    /\ lookups[p].kind = "route"
    /\ LET route_path == lookups[p].name
           got == get_route_config(
                      [route_cache EXCEPT ![route_path] = NoRouteRow],
                      [route_table EXCEPT ![route_path] = lookups[p].row],
                      route_path)
       IN  /\ route_cache' =
                 IF got.route_config.exists
                 THEN [route_cache EXCEPT ![route_path] = got.cache[route_path]]
                 ELSE route_cache
           /\ lookups' = [lookups EXCEPT ![p] =
                 [NoLookup EXCEPT !.kind = "route", !.name = route_path,
                                  !.result = got.route_config]]
    /\ UNCHANGED << wf_table, workflow_cache, job_table, req, pc, local, published,
                    store_changes, handled, answered, dropped >>
    /\ UNCHANGED << route_table, settled, fresh >>
    /\ UNCHANGED << correlator_vars, gateway_vars, producer_vars >>

\* get_all_response_topics returns the topics the store returned
get_all_response_topics_resume(p) ==
    /\ lookups[p].pc = "fetched"
    /\ lookups[p].kind = "topics"
    /\ lookups' = [lookups EXCEPT ![p] =
           [NoLookup EXCEPT !.kind = "topics", !.result = lookups[p].row]]
    /\ UNCHANGED << wf_table, workflow_cache, job_table, req, pc, local, published,
                    store_changes, handled, answered, dropped >>
    /\ UNCHANGED << route_table, route_cache, settled, fresh >>
    /\ UNCHANGED << correlator_vars, gateway_vars, producer_vars >>

\* ------------------------------------------------------------ KafkaService
\* the handlers main.py creates, one per call of create_response_handler
HandlerIds == {"h1", "h2"}
\* what a poll returns besides None: a message the handler handles, one
\* that is not JSON, one on which the handler raises
MessageKinds == {"ok", "undecodable", "poison"}

\* a membership test that never finds the key
In_never(topic, table) == FALSE

\* "topic in table" for a dict, kept as the sequence of its keys in
\* insertion order
In(topic, table) == \E i \in 1..Len(table) : table[i] = topic

\* a _consume_messages task: pc is "none" (no task), "created" (not run yet),
\* "poll" (awaiting the executor), "handling" (inside await handler(value)),
\* "exited" (returned) or "cancelled"; cancel: task.cancel() was called and
\* CancelledError is not yet thrown into the coroutine
NoLoop == [pc |-> "none", handler |-> None, cancel |-> FALSE]

\* stop_all_consumers: pc is "idle", "awaiting" (await task, for the first
\* task of todo), "returned" or "raised"
NoStop == [pc |-> "idle", todo |-> << >>]

InitGateway ==
    /\ handlers = [t \in ResponseTopics |-> None]
    /\ consumers = << >>
    /\ consumer_tasks = << >>
    /\ _running = TRUE
    /\ loops = [t \in ResponseTopics |-> NoLoop]
    /\ polling = [t \in ResponseTopics |-> FALSE]
    /\ log = [t \in ResponseTopics |-> << >>]
    /\ stopper = NoStop
    /\ closed = [t \in ResponseTopics |-> 0]

\* what no step of the gateway touches
service_vars == << wf_table, workflow_cache, job_table, req, pc, local, published,
                   store_changes, handled, answered, dropped,
                   translation_jobs, pending_requests, futures, treq, handed,
                   route_table, route_cache, lookups, settled, fresh,
                   producer, outbox, sends, undelivered >>

\* register_consumer: self.handlers[topic] = handler
register_consumer(topic, handler) ==
    /\ handlers' = [handlers EXCEPT ![topic] = handler]
    /\ UNCHANGED << consumers, consumer_tasks, _running, loops, polling, log,
                    stopper, closed >>
    /\ UNCHANGED service_vars

\* start_consumer: nothing for a topic that has a consumer; otherwise the
\* consumer is created and subscribed and the task created
start_consumer(topic) ==
    /\ stopper.pc = "idle"
    /\ IF In(topic, consumers)
       THEN UNCHANGED << consumers, consumer_tasks, loops >>
       ELSE /\ consumers' = Append(consumers, topic)
            /\ consumer_tasks' = Append(consumer_tasks, topic)
            /\ loops' = [loops EXCEPT ![topic] = [NoLoop EXCEPT !.pc = "created"]]
    /\ UNCHANGED << handlers, _running, polling, log, stopper, closed >>
    /\ UNCHANGED service_vars

\* an exception that leaves the loop: the finally clause runs, the task ends
propagate(running) == "exited"

\* "while self._running": the loop polls again or leaves through finally
continue(running) == IF running THEN "poll" ELSE "exited"

\* "except Exception" re-raising what it caught: the loop ends
reraise(running) == "exited"

\* the except clauses inside the loop: the error is logged, the loop goes on
swallow(running) == continue(running)

\* the finally clause: consumer.close() when the loop is left
finally(n, position) == IF position = "exited" THEN n + 1 ELSE n

\* the task runs for the first time: consumer and handler are looked up, the
\* loop is entered
consume_messages_begin(topic) ==
    /\ loops[topic].pc = "created"
    /\ ~loops[topic].cancel
    /\ LET handler == handlers[topic]
           position == IF handler = None THEN "exited" ELSE continue(_running)
       IN  /\ loops' = [loops EXCEPT ![topic].pc = position, ![topic].handler = handler]
           /\ polling' = [polling EXCEPT ![topic] = position = "poll"]
           /\ closed' = [closed EXCEPT
                  ![topic] = IF handler = None THEN @ ELSE finally(@, position)]
    /\ UNCHANGED << handlers, consumers, consumer_tasks, _running, log, stopper >>
    /\ UNCHANGED service_vars

\* consumer.poll(timeout=1.0) returns None or an error: continue
poll_nothing(topic) ==
    /\ loops[topic].pc = "poll"
    /\ ~loops[topic].cancel
    /\ polling[topic]
    /\ LET position == continue(_running)
       IN  /\ loops' = [loops EXCEPT ![topic].pc = position]
           /\ polling' = [polling EXCEPT ![topic] = position = "poll"]
           /\ closed' = [closed EXCEPT ![topic] = finally(@, position)]
    /\ UNCHANGED << handlers, consumers, consumer_tasks, _running, log, stopper >>
    /\ UNCHANGED service_vars

\* the poll returns a message that json.loads rejects
poll_undecodable(topic) ==
    /\ loops[topic].pc = "poll"
    /\ ~loops[topic].cancel
    /\ polling[topic]
    /\ Len(log[topic]) < MaxMessages
    /\ log' = [log EXCEPT ![topic] =
                  Append(@, [kind |-> "undecodable", progress |-> "dropped"])]
    /\ LET position == swallow(_running)
       IN  /\ loops' = [loops EXCEPT ![topic].pc = position]
           /\ polling' = [polling EXCEPT ![topic] = position = "poll"]
           /\ closed' = [closed EXCEPT ![topic] = finally(@, position)]
    /\ UNCHANGED << handlers, consumers, consumer_tasks, _running, stopper >>
    /\ UNCHANGED service_vars

\* a loop that starts the handler and polls on without awaiting it
poll_message_spawned(topic, kind) ==
    /\ loops[topic].pc \in {"poll", "handling"}
    /\ ~loops[topic].cancel
    /\ Len(log[topic]) < MaxMessages
    /\ log' = [log EXCEPT ![topic] = Append(@, [kind |-> kind, progress |-> "begun"])]
    /\ loops' = [loops EXCEPT ![topic].pc = "handling"]
    /\ polling' = [polling EXCEPT ![topic] = FALSE]
    /\ UNCHANGED << handlers, consumers, consumer_tasks, _running, stopper, closed >>
    /\ UNCHANGED service_vars

\* the poll returns a message, it is decoded and the handler called: the
\* handler runs up to its first await
poll_message(topic, kind) ==
    /\ loops[topic].pc = "poll"
    /\ ~loops[topic].cancel
    /\ polling[topic]
    /\ Len(log[topic]) < MaxMessages
    /\ log' = [log EXCEPT ![topic] = Append(@, [kind |-> kind, progress |-> "begun"])]
    /\ loops' = [loops EXCEPT ![topic].pc = "handling"]
    /\ polling' = [polling EXCEPT ![topic] = FALSE]
    /\ UNCHANGED << handlers, consumers, consumer_tasks, _running, stopper, closed >>
    /\ UNCHANGED service_vars

\* the handler runs on from one await to the next: its first commit is made
handler_commits(topic) ==
    /\ loops[topic].pc = "handling"
    /\ ~loops[topic].cancel
    /\ log[topic][Len(log[topic])].progress = "begun"
    /\ log' = [log EXCEPT ![topic][Len(log[topic])].progress = "half"]
    /\ UNCHANGED << handlers, consumers, consumer_tasks, _running, loops, polling,
                    stopper, closed >>
    /\ UNCHANGED service_vars

\* the handler returns, or raises and the loop logs the exception
handler_ends(topic) ==
    /\ loops[topic].pc = "handling"
    /\ ~loops[topic].cancel
    /\ log[topic][Len(log[topic])].progress = "half"
    /\ LET raises == log[topic][Len(log[topic])].kind = "poison"
           position == IF raises THEN swallow(_running) ELSE continue(_running)
       IN  /\ log' = [log EXCEPT ![topic][Len(log[topic])].progress =
                         IF raises THEN "raised" ELSE "done"]
           /\ loops' = [loops EXCEPT ![topic].pc = position]
           /\ polling' = [polling EXCEPT ![topic] = position = "poll"]
           /\ closed' = [closed EXCEPT ![topic] = finally(@, position)]
    /\ UNCHANGED << handlers, consumers, consumer_tasks, _running, stopper >>
    /\ UNCHANGED service_vars

\* CancelledError is thrown into the task where it is suspended: a task
\* that has not run ends at once; inside the loop the exception passes
\* "except Exception", the finally clause closes the consumer; a handler in
\* progress is left where it was
cancelled(topic) ==
    /\ loops[topic].cancel
    /\ loops[topic].pc \in {"created", "poll", "handling"}
    /\ loops' = [loops EXCEPT ![topic].pc = "cancelled", ![topic].cancel = FALSE]
    /\ closed' = [closed EXCEPT
           ![topic] = IF loops[topic].pc = "created" THEN @ ELSE finally(@, propagate(_running))]
    /\ log' = [log EXCEPT ![topic] =
           IF loops[topic].pc = "handling"
           THEN [@ EXCEPT ![Len(@)].progress = "abandoned"]
           ELSE @]
    /\ UNCHANGED << handlers, consumers, consumer_tasks, _running, polling, stopper >>
    /\ UNCHANGED service_vars

\* the executor thread of a task that no longer awaits it comes back from
\* consumer.poll
poll_thread_returns(topic) ==
    /\ polling[topic]
    /\ loops[topic].pc # "poll"
    /\ polling' = [polling EXCEPT ![topic] = FALSE]
    /\ UNCHANGED << handlers, consumers, consumer_tasks, _running, loops, log,
                    stopper, closed >>
    /\ UNCHANGED service_vars

\* the task has ended
task_done(topic) == loops[topic].pc \in {"exited", "cancelled"}

\* task.cancel(): nothing for a task that has ended
task_cancel(loop) ==
    IF loop.pc \in {"exited", "cancelled"} THEN loop ELSE [loop EXCEPT !.cancel = TRUE]

\* self.consumers = {} that empties nothing
kept(table) == table

\* self.consumers = {} / self.consumer_tasks = {}
cleared(table) == << >>

\* "for topic, consumer in self.consumers.items(): consumer.close()": the
\* number of consumers closed before close() raises for one that is closed
\* already; all of them when close() accepts being called again
RECURSIVE closes(_, _, _)
closes(table, count, idempotent) ==
    IF table = << >> THEN 0
    ELSE IF count[Head(table)] > 0 /\ ~idempotent THEN 1
    ELSE 1 + closes(Tail(table), count, idempotent)

\* stop_all_consumers after its last "await task": the consumers are closed,
\* the tables emptied, the executor shut down (which waits for the polls
\* still running); close() on a closed consumer raises or does nothing,
\* as the client library has it
stop_all_consumers_close(idempotent) ==
    LET n == closes(consumers, closed, idempotent)
        raised == n > 0 /\ closed[consumers[n]] > 0 /\ ~idempotent
    IN  /\ closed' = [t \in ResponseTopics |->
                         IF \E i \in 1..n : consumers[i] = t
                         THEN closed[t] + 1 ELSE closed[t]]
        /\ IF raised
           THEN /\ stopper' = [pc |-> "raised", todo |-> << >>]
                /\ UNCHANGED << consumers, consumer_tasks, polling >>
           ELSE /\ stopper' = [pc |-> "returned", todo |-> << >>]
                /\ consumers' = cleared(consumers)
                /\ consumer_tasks' = cleared(consumer_tasks)
                /\ polling' = [t \in ResponseTopics |-> FALSE]

\* stop_all_consumers is called: _running is reset, the first task is
\* cancelled and awaited
stop_all_consumers(idempotent) ==
    /\ stopper.pc = "idle"
    /\ _running' = FALSE
    /\ IF consumer_tasks = << >>
       THEN /\ stop_all_consumers_close(idempotent)
            /\ UNCHANGED loops
       ELSE /\ stopper' = [pc |-> "awaiting", todo |-> consumer_tasks]
            /\ loops' = [loops EXCEPT ![Head(consumer_tasks)] = task_cancel(@)]
            /\ UNCHANGED << consumers, consumer_tasks, polling, closed >>
    /\ UNCHANGED << handlers, log >>
    /\ UNCHANGED service_vars

\* the awaited task has ended: the next task is cancelled and awaited, and
\* after the last one the consumers are closed
stop_all_consumers_awaited(idempotent) ==
    /\ stopper.pc = "awaiting"
    /\ task_done(Head(stopper.todo))
    /\ LET rest == Tail(stopper.todo)
       IN  IF rest = << >>
           THEN /\ stop_all_consumers_close(idempotent)
                /\ UNCHANGED loops
           ELSE /\ stopper' = [stopper EXCEPT !.todo = rest]
                /\ loops' = [loops EXCEPT ![Head(rest)] = task_cancel(@)]
                /\ UNCHANGED << consumers, consumer_tasks, polling, closed >>
    /\ UNCHANGED << handlers, _running, log >>
    /\ UNCHANGED service_vars

\* ------------------------------------------------ KafkaService.send_message
\* a message handed to producer.produce: report is the delivery report the
\* client library holds for it ("none": not yet known), future the future of
\* the send_message call that produced it
NoSend == [pc |-> "idle", message |-> 0, calls |-> 0]

InitProducer ==
    /\ producer = FALSE
    /\ outbox = << >>
    /\ sends = [c \in Senders |-> NoSend]
    /\ undelivered = {}

\* what no step of send_message touches
consumer_vars == << handlers, consumers, consumer_tasks, _running, loops, polling,
                    log, stopper, closed >>

\* a callback that reports every delivery as a success
delivery_callback_ok(err) == "result"

\* delivery_callback(err, msg): future.set_exception or future.set_result
delivery_callback(err) == IF err THEN "exception" ELSE "result"

\* producer.poll(0) and producer.flush(): the callback of every message whose
\* report is known and not yet served is called
poll(messages) ==
    [i \in DOMAIN messages |->
        IF messages[i].report # "none" /\ messages[i].future = "pending"
        THEN [messages[i] EXCEPT !.future = delivery_callback(messages[i].report = "err")]
        ELSE messages[i]]

\* "await future": the coroutine is suspended while the future is pending,
\* returns on a result, raises on an exception
await(future) ==
    IF future = "pending" THEN "awaiting"
    ELSE IF future = "result" THEN "returned" ELSE "raised"

\* send_message up to "await future": the producer is started if there is
\* none, the message is produced, poll(0) serves the reports that are known
\* by then (`report`: what is known of the new message itself)
send_message(c, report) ==
    /\ sends[c].pc \in {"idle", "returned", "raised"}
    /\ Len(outbox) < MaxSends
    /\ LET produced == Append(outbox, [caller |-> c, report |-> report, future |-> "pending"])
           polled == poll(produced)
           message == Len(produced)
       IN  /\ outbox' = polled
           /\ sends' = [sends EXCEPT ![c] =
                  [pc |-> await(polled[message].future), message |-> message,
                   calls |-> @.calls + 1]]
    /\ producer' = TRUE
    /\ UNCHANGED undelivered
    /\ UNCHANGED << consumer_vars, wf_table, workflow_cache, job_table, req, pc, local, published,
                   store_changes, handled, answered, dropped,
                   correlator_vars, registry_vars >>

\* the broker acknowledges the message, or the client library gives it up
broker_report(i, report) ==
    /\ i \in DOMAIN outbox
    /\ outbox[i].report = "none"
    /\ outbox' = [outbox EXCEPT ![i].report = report]
    /\ UNCHANGED << producer, sends, undelivered >>
    /\ UNCHANGED << consumer_vars, wf_table, workflow_cache, job_table, req, pc, local, published,
                   store_changes, handled, answered, dropped,
                   correlator_vars, registry_vars >>

\* the future is done: send_message returns or raises
send_message_resume(c) ==
    /\ sends[c].pc = "awaiting"
    /\ outbox[sends[c].message].future # "pending"
    /\ sends' = [sends EXCEPT ![c].pc = await(outbox[sends[c].message].future)]
    /\ UNCHANGED << producer, outbox, undelivered >>
    /\ UNCHANGED << consumer_vars, wf_table, workflow_cache, job_table, req, pc, local, published,
                   store_changes, handled, answered, dropped,
                   correlator_vars, registry_vars >>

\* stop_producer: flush() returns when every message has its report and
\* every callback was called; self.producer = None
stop_producer ==
    /\ producer
    /\ \A i \in DOMAIN outbox : outbox[i].report # "none"
    /\ outbox' = poll(outbox)
    /\ producer' = FALSE
    /\ UNCHANGED << sends, undelivered >>
    /\ UNCHANGED << consumer_vars, wf_table, workflow_cache, job_table, req, pc, local, published,
                   store_changes, handled, answered, dropped,
                   correlator_vars, registry_vars >>

\* ---------------------------------------- POST /transcribe-and-translate
\* router.py:119-133 / 166-178: the job row is added and committed
CreateJob(j, name) ==
    /\ req[j] = "none"
    /\ job_table' = [job_table EXCEPT ![j] = NewJob(j, name)]
    /\ req' = [req EXCEPT ![j] = "created"]
    /\ UNCHANGED << wf_table, workflow_cache, pc, local, published, store_changes, handled, answered, dropped >>
    /\ UNCHANGED correlator_vars
    /\ UNCHANGED << registry_vars, gateway_vars, producer_vars >>

\* WorkflowService.start_job, up to the await of the delivery report; `job`
\* is the request's own job object, as it was inserted
start_job(j) ==
    /\ req[j] = "created"
    /\ LET job == NewJob(j, job_table[j].source_type)
           got == get_workflow_config(workflow_cache, wf_table, job.source_type)
           out == _send_to_step(job.source_id, 0, got.workflow)
       IN  /\ workflow_cache' = got.cache
           /\ IF ~got.workflow.found
              THEN /\ job_table' = [job_table EXCEPT
                          ![j] = commit(@, job, [job EXCEPT !.source_status = ERROR])]
                   /\ req' = [req EXCEPT ![j] = "no_workflow"]
                   /\ UNCHANGED << published, handled >>
              ELSE IF out = NoDispatch
              THEN /\ req' = [req EXCEPT ![j] = "invalid_step"]
                   /\ UNCHANGED << job_table, published, handled >>
              ELSE /\ published' = published (+) SetToBag({out[1]})
                   /\ req' = [req EXCEPT ![j] = "delivery"]
                   /\ handled' = [handled EXCEPT ![j] = 0]
                   /\ UNCHANGED job_table
    /\ UNCHANGED << wf_table, pc, local, store_changes, answered, dropped >>
    /\ UNCHANGED correlator_vars
    /\ UNCHANGED << registry_vars, gateway_vars, producer_vars >>

\* the delivery report arrives: send_message returns, start_job returns
StartDelivered(j) ==
    /\ req[j] = "delivery"
    /\ req' = [req EXCEPT ![j] = "started"]
    /\ UNCHANGED << wf_table, workflow_cache, job_table, pc, local, published,
                    store_changes, handled, answered, dropped >>
    /\ UNCHANGED correlator_vars
    /\ UNCHANGED << registry_vars, gateway_vars, producer_vars >>

\* a request that produces the message again when its delivery has failed
StartDeliveryRetried(j) ==
    /\ req[j] = "delivery"
    /\ published' = published (+) SetToBag({Dispatch("whisper", [source_id |-> j], j)})
    /\ undelivered' = undelivered \cup {[key |-> j, from |-> "start_job"]}
    /\ UNCHANGED << wf_table, workflow_cache, job_table, req, pc, local,
                    store_changes, handled, answered, dropped >>
    /\ UNCHANGED correlator_vars
    /\ UNCHANGED << registry_vars, gateway_vars, producer, outbox, sends >>

\* the delivery report is an error: send_message raises, the request answers 500
StartDeliveryFailed(j) ==
    /\ req[j] = "delivery"
    /\ req' = [req EXCEPT ![j] = "failed"]
    /\ handled' = [handled EXCEPT ![j] = -1]
    /\ undelivered' = undelivered \cup {[key |-> j, from |-> "start_job"]}
    /\ UNCHANGED << wf_table, workflow_cache, job_table, pc, local, published,
                    store_changes, answered, dropped >>
    /\ UNCHANGED correlator_vars
    /\ UNCHANGED << registry_vars, gateway_vars, producer, outbox, sends >>

\* ------------------------------------------------ KafkaService consumer loop
\* the number of messages published with key j
PublishedFor(bag, j) ==
    LET ms == { m \in BagToSet(bag) : m.key = j }
    IN  BagCardinality([m \in ms |-> bag[m]])

\* the workers answer what was dispatched to them, any number of times: a
\* response carries a job's identifier only once a dispatch carried it
Answerable(data) ==
    data.source_id \in JobIds \cup TranslationIds
        => PublishedFor(published, data.source_id) > 0

\* _consume_messages: the poll returns a message, which is decoded
Deliver(c, data) ==
    /\ pc[c] = "poll"
    /\ Answerable(data)
    /\ pc' = [pc EXCEPT ![c] = "received"]
    /\ local' = [local EXCEPT ![c] = [NoLocal EXCEPT !.data = data]]
    /\ dropped' = FALSE
    /\ UNCHANGED << wf_table, workflow_cache, job_table, req, published,
                    store_changes, handled, answered >>
    /\ UNCHANGED correlator_vars
    /\ UNCHANGED << registry_vars, gateway_vars, producer_vars >>

\* "if not source_id": the key is missing or falsy
no_source_id(data) == data.source_id = Absent

\* a select without its where clause: any stored row answers
scalar_any(table, source_id, none) ==
    IF \E k \in DOMAIN table : table[k].exists
    THEN table[CHOOSE k \in DOMAIN table : table[k].exists] ELSE none

\* select(...).where(source_id == ...) and scalar_one_or_none(): the row of
\* that source_id, `none` when there is no such row
scalar_one_or_none(table, source_id, none) ==
    IF source_id \in DOMAIN table /\ table[source_id].exists
    THEN table[source_id] ELSE none

NoTranslationJob ==
    [exists |-> FALSE, source_id |-> None, source_type |-> None, status |-> None,
     translations |-> None]

\* process_response up to its first commit: what the two selects return
translation_job_of(data) ==
    IF no_source_id(data) THEN NoTranslationJob
    ELSE scalar_one_or_none(translation_jobs, data.source_id, NoTranslationJob)

job_of(data) ==
    IF no_source_id(data) THEN NoJob
    ELSE scalar_one_or_none(job_table, data.source_id, NoJob)

\* process_response returns early: no source_id, or no job of that source_id
process_response_drop(c) ==
    /\ pc[c] = "received"
    /\ ~translation_job_of(local[c].data).exists
    /\ ~job_of(local[c].data).exists
    /\ pc' = [pc EXCEPT ![c] = "poll"]
    /\ local' = [local EXCEPT ![c] = NoLocal]
    /\ dropped' = TRUE
    /\ UNCHANGED << wf_table, workflow_cache, job_table, req, published,
                    store_changes, handled, answered >>
    /\ UNCHANGED correlator_vars
    /\ UNCHANGED << registry_vars, gateway_vars, producer_vars >>

\* process_response finds a transcription job: the session holds the row as
\* it is now
process_response_load(c) ==
    /\ pc[c] = "received"
    /\ ~translation_job_of(local[c].data).exists
    /\ job_of(local[c].data).exists
    /\ LET job == job_of(local[c].data)
       IN  /\ local' = [local EXCEPT ![c].source_id = job.source_id, ![c].job = job]
           /\ handled' = [handled EXCEPT
                  ![job.source_id] =
                      IF Quiet(job.source_id) /\ req[job.source_id] = "started"
                      THEN @ ELSE -1]
    /\ pc' = [pc EXCEPT ![c] = "loaded"]
    /\ UNCHANGED << wf_table, workflow_cache, job_table, req, published, store_changes >>
    /\ UNCHANGED << answered, dropped, correlator_vars >>
    /\ UNCHANGED << registry_vars, gateway_vars, producer_vars >>

\* _update_job_with_response and the commit that follows it
process_response_update(c) ==
    /\ pc[c] = "loaded"
    /\ LET source_id == local[c].source_id
           job == _update_job_with_response(local[c].job, local[c].data)
       IN  /\ job_table' = [job_table EXCEPT ![source_id] = commit(@, local[c].job, job)]
           /\ local' = [local EXCEPT ![c].job = job]
    /\ pc' = [pc EXCEPT ![c] = "advance"]
    /\ UNCHANGED << wf_table, workflow_cache, req, published, store_changes, handled, answered, dropped >>
    /\ UNCHANGED correlator_vars
    /\ UNCHANGED << registry_vars, gateway_vars, producer_vars >>

\* an _advance_workflow that acts only on a response that came in on the
\* response topic of the job's current step, and drops any other
process_response_advance_expected(c) ==
    /\ pc[c] = "advance"
    /\ LET source_id == local[c].source_id
           job == local[c].job
           got == get_workflow_config(workflow_cache, wf_table, job.source_type)
           current == int(job.workflow_step) + 1
           expected == /\ got.workflow.found
                       /\ current <= Len(got.workflow.steps)
                       /\ got.workflow.steps[current].response_topic = c
           adv == _advance_workflow(job, got.workflow)
       IN  /\ workflow_cache' = got.cache
           /\ answered' = [answered EXCEPT ![source_id] = @ \cup {c}]
           /\ UNCHANGED << dropped, handled >>
           /\ IF ~expected \/ adv.next_step = -1
              THEN /\ pc' = [pc EXCEPT ![c] = "poll"]
                   /\ local' = [local EXCEPT ![c] = NoLocal]
                   /\ job_table' = IF expected
                                   THEN [job_table EXCEPT
                                            ![source_id] = commit(@, job, adv.job)]
                                   ELSE job_table
              ELSE /\ pc' = [pc EXCEPT ![c] = "send"]
                   /\ job_table' = [job_table EXCEPT ![source_id] = commit(@, job, adv.job)]
                   /\ local' = [local EXCEPT
                          ![c].job = adv.job, ![c].data = NoMessage,
                          ![c].out = _send_to_step(source_id, adv.next_step, got.workflow)]
    /\ UNCHANGED << wf_table, req, published, store_changes >>
    /\ UNCHANGED correlator_vars
    /\ UNCHANGED << registry_vars, gateway_vars, producer_vars >>

\* _advance_workflow up to and including its commit
process_response_advance(c) ==
    /\ pc[c] = "advance"
    /\ LET source_id == local[c].source_id
           job == local[c].job
           got == get_workflow_config(workflow_cache, wf_table, job.source_type)
           adv == _advance_workflow(job, got.workflow)
       IN  /\ workflow_cache' = got.cache
           /\ job_table' = [job_table EXCEPT ![source_id] = commit(@, job, adv.job)]
           /\ answered' = [answered EXCEPT ![source_id] = @ \cup {c}]
           /\ UNCHANGED dropped
           /\ IF adv.next_step = -1
              THEN /\ pc' = [pc EXCEPT ![c] = "poll"]
                   /\ local' = [local EXCEPT ![c] = NoLocal]
                   /\ handled' = [handled EXCEPT ![source_id] = Count(@)]
              ELSE /\ pc' = [pc EXCEPT ![c] = "send"]
                   /\ local' = [local EXCEPT
                          ![c].job = adv.job, ![c].data = NoMessage,
                          ![c].out = _send_to_step(source_id, adv.next_step, got.workflow)]
                   /\ UNCHANGED handled
    /\ UNCHANGED << wf_table, req, published, store_changes >>
    /\ UNCHANGED correlator_vars
    /\ UNCHANGED << registry_vars, gateway_vars, producer_vars >>

\* _send_to_step after the commit has returned: the message is produced
process_response_send(c) ==
    /\ pc[c] = "send"
    /\ published' = IF local[c].out = NoDispatch THEN published
                    ELSE published (+) SetToBag({local[c].out[1]})
    /\ pc' = [pc EXCEPT ![c] = "delivery"]
    /\ UNCHANGED << wf_table, workflow_cache, job_table, req, local, store_changes, handled, answered, dropped >>
    /\ UNCHANGED correlator_vars
    /\ UNCHANGED << registry_vars, gateway_vars, producer_vars >>

\* the delivery report arrives and the handler returns
process_response_delivered(c) ==
    /\ pc[c] = "delivery"
    /\ pc' = [pc EXCEPT ![c] = "poll"]
    /\ local' = [local EXCEPT ![c] = NoLocal]
    /\ handled' = [handled EXCEPT ![local[c].source_id] = Count(@)]
    /\ UNCHANGED << wf_table, workflow_cache, job_table, req, published, store_changes >>
    /\ UNCHANGED << answered, dropped, correlator_vars >>
    /\ UNCHANGED << registry_vars, gateway_vars, producer_vars >>

\* the delivery report is an error: the handler raises into the consumer
\* loop, which logs it and polls again
process_response_delivery_failed(c) ==
    /\ pc[c] = "delivery"
    /\ pc' = [pc EXCEPT ![c] = "poll"]
    /\ local' = [local EXCEPT ![c] = NoLocal]
    /\ handled' = [handled EXCEPT ![local[c].source_id] = -1]
    /\ undelivered' = undelivered \cup
           {[key |-> local[c].source_id, from |-> "_advance_workflow"]}
    /\ UNCHANGED << wf_table, workflow_cache, job_table, req, published, store_changes >>
    /\ UNCHANGED << answered, dropped, correlator_vars >>
    /\ UNCHANGED << registry_vars, gateway_vars, producer, outbox, sends >>

\* ------------------------------------------- TranslationResponseHandler
\* asyncio.Future: pending, done with a result, or cancelled
NoPayload == [source_id |-> None, translations |-> None, status |-> None]
PendingFuture == [state |-> "pending", result |-> NoPayload]

\* future.done(): a result is set or the future is cancelled
done(future) == future.state # "pending"

\* a completion that loses its argument: the future is done with no payload
set_result_empty(future, response_data) == [state |-> "done", result |-> NoPayload]

\* future.set_result(response_data)
set_result(future, response_data) == [state |-> "done", result |-> response_data]

\* future.cancel(), as asyncio.wait_for does on its timeout
cancel(future) == [state |-> "cancelled", result |-> NoPayload]

\* a removal that removes nothing
pop_nothing(pending, source_id) == pending

\* self._pending_requests.pop(source_id, None); 0 stands for "no entry"
pop(pending, source_id) == [pending EXCEPT ![source_id] = 0]

\* a registration that keeps the entry that is there (dict.setdefault)
register_request_first(pending, futs, source_id) ==
    [pending |-> IF pending[source_id] # 0 THEN pending
                 ELSE [pending EXCEPT ![source_id] = Len(futs) + 1],
     futures |-> Append(futs, PendingFuture),
     future |-> Len(futs) + 1]

\* a registration that stores the future nowhere
register_request_untabled(pending, futs, source_id) ==
    [pending |-> pending,
     futures |-> Append(futs, PendingFuture),
     future |-> Len(futs) + 1]

\* register_request: a new future, stored under source_id and returned
register_request(pending, futs, source_id) ==
    [pending |-> [pending EXCEPT ![source_id] = Len(futs) + 1],
     futures |-> Append(futs, PendingFuture),
     future |-> Len(futs) + 1]

\* a completion that does not test future.done()
handle_response_always(pending, futs, source_id, response_data) ==
    LET future == pending[source_id]
    IN  [pending |-> pop(pending, source_id),
         futures |-> IF future # 0
                     THEN [futs EXCEPT ![future] = set_result(@, response_data)]
                     ELSE futs]

\* handle_response: the entry is popped, its future completed if still pending
handle_response(pending, futs, source_id, response_data) ==
    LET future == pending[source_id]
    IN  [pending |-> pop(pending, source_id),
         futures |-> IF future # 0 /\ ~done(futs[future])
                     THEN [futs EXCEPT ![future] = set_result(@, response_data)]
                     ELSE futs]

\* a pass that removes every entry
_cleanup_every_future ==
    /\ \E w \in WaiterIds : pending_requests[w] # 0
    /\ pending_requests' = [w \in WaiterIds |-> 0]
    /\ UNCHANGED << translation_jobs, futures, treq, handed >>
    /\ UNCHANGED << wf_table, workflow_cache, job_table, req, pc, local, published,
                    store_changes, handled, answered, dropped >>
    /\ UNCHANGED << registry_vars, gateway_vars, producer_vars >>

\* one pass of _cleanup_expired_futures: the entries whose future is done go
_cleanup_expired_futures ==
    /\ \E w \in WaiterIds :
          pending_requests[w] # 0 /\ done(futures[pending_requests[w]])
    /\ pending_requests' =
          [w \in WaiterIds |->
              IF pending_requests[w] # 0 /\ done(futures[pending_requests[w]])
              THEN 0 ELSE pending_requests[w]]
    /\ UNCHANGED << translation_jobs, futures, treq, handed >>
    /\ UNCHANGED << wf_table, workflow_cache, job_table, req, pc, local, published,
                    store_changes, handled, answered, dropped >>
    /\ UNCHANGED << registry_vars, gateway_vars, producer_vars >>

\* ------------------------- TranslationResponseHandler, call by call
\* the payloads handle_response is called with for source_id
Payloads(source_id) ==
    { [source_id |-> source_id, translations |-> x, status |-> "completed"] :
        x \in {"hola", "salut"} }

\* what no call of the handler table touches
table_unchanged ==
    /\ UNCHANGED << translation_jobs, treq, handed >>
    /\ UNCHANGED << wf_table, workflow_cache, job_table, req, pc, local, published,
                    store_changes, handled, answered, dropped >>
    /\ UNCHANGED << registry_vars, gateway_vars, producer_vars >>

\* register_request(source_id), by whoever calls it
register_request_call(source_id) ==
    /\ Len(futures) < MaxFutures
    /\ LET reg == register_request(pending_requests, futures, source_id)
       IN  /\ pending_requests' = reg.pending
           /\ futures' = reg.futures
    /\ table_unchanged

\* handle_response(source_id, response_data), by whoever calls it
handle_response_call(source_id, payload) ==
    /\ LET res == handle_response(pending_requests, futures, source_id, payload)
       IN  /\ pending_requests' = res.pending
           /\ futures' = res.futures
    /\ table_unchanged

\* asyncio.wait_for(future, timeout) of whoever waits on the future: the
\* timeout elapses, the future is cancelled
wait_for_cancels(future) ==
    /\ future \in DOMAIN futures
    /\ ~done(futures[future])
    /\ futures' = [futures EXCEPT ![future] = cancel(@)]
    /\ UNCHANGED pending_requests
    /\ table_unchanged

\* except asyncio.TimeoutError: a waiter that has timed out pops the entry
\* of its source_id
pop_call(source_id) ==
    /\ \E future \in DOMAIN futures : futures[future].state = "cancelled"
    /\ pending_requests[source_id] # 0
    /\ pending_requests' = pop(pending_requests, source_id)
    /\ UNCHANGED futures
    /\ table_unchanged

\* ------------------------------------------------------- POST /translate
\* the row the request handler inserts (router.py:241-252)
NewTranslationJob(source_id) ==
    [exists |-> TRUE, source_id |-> source_id, source_type |-> TranslationOnly,
     status |-> IN_PROGRESS, translations |-> None]

NoRequest == [pc |-> "none", wait_for_result |-> FALSE, future |-> 0, result |-> NoPayload]

InitCorrelator ==
    /\ translation_jobs = [t \in TranslationIds |-> NoTranslationJob]
    /\ pending_requests = [w \in WaiterIds |-> 0]
    /\ futures = << >>
    /\ treq = [w \in WaiterIds |-> NoRequest]
    /\ handed = [w \in WaiterIds |-> NoPayload]

engine_vars == << job_table, req, store_changes, handled, answered, dropped >>

\* router.py:238-253: the job row is added and committed
translate_create(t, wait_for_result) ==
    /\ treq[t].pc = "none"
    /\ translation_jobs' = [translation_jobs EXCEPT ![t] = NewTranslationJob(t)]
    /\ treq' = [treq EXCEPT ![t].pc = "created", ![t].wait_for_result = wait_for_result]
    /\ UNCHANGED << pending_requests, futures, handed >>
    /\ UNCHANGED << wf_table, workflow_cache, pc, local, published >>
    /\ UNCHANGED engine_vars
    /\ UNCHANGED << registry_vars, gateway_vars, producer_vars >>

\* router.py:262: the future is registered before the job is started
translate_register(t) ==
    /\ treq[t].pc = "created"
    /\ treq[t].wait_for_result
    /\ LET reg == register_request(pending_requests, futures, t)
       IN  /\ pending_requests' = reg.pending
           /\ futures' = reg.futures
           /\ treq' = [treq EXCEPT ![t].pc = "registered", ![t].future = reg.future]
    /\ UNCHANGED << translation_jobs, handed >>
    /\ UNCHANGED << wf_table, workflow_cache, pc, local, published >>
    /\ UNCHANGED engine_vars
    /\ UNCHANGED << registry_vars, gateway_vars, producer_vars >>

\* the message start_translation_job builds (workflow_service.py:79-84)
translation_message(source_id) ==
    [source_id |-> source_id, input |-> "text", source_language |-> "en",
     target_languages |-> << "es" >>]

\* where the request handler goes on when start_translation_job has returned
started(request) == IF request.wait_for_result THEN "waiting" ELSE "returned_id"

\* start_translation_job up to the await of the delivery report; without a
\* workflow named "translation", or with one without steps, it just returns
start_translation_job(t) ==
    /\ \/ treq[t].pc = "registered"
       \/ treq[t].pc = "created" /\ ~treq[t].wait_for_result
    /\ LET got == get_workflow_config(workflow_cache, wf_table, TranslationWorkflow)
           workflow == got.workflow
       IN  /\ workflow_cache' = got.cache
           /\ IF workflow.found /\ workflow.steps # << >>
              THEN /\ published' = published (+)
                          SetToBag({Dispatch(workflow.steps[1].topic,
                                             translation_message(t), t)})
                   /\ treq' = [treq EXCEPT ![t].pc = "delivery"]
              ELSE /\ treq' = [treq EXCEPT ![t].pc = started(treq[t])]
                   /\ UNCHANGED published
    /\ UNCHANGED << translation_jobs, pending_requests, futures, handed >>
    /\ UNCHANGED << wf_table, pc, local >>
    /\ UNCHANGED engine_vars
    /\ UNCHANGED << registry_vars, gateway_vars, producer_vars >>

\* the delivery report arrives: send_message and start_translation_job return
translate_delivered(t) ==
    /\ treq[t].pc = "delivery"
    /\ treq' = [treq EXCEPT ![t].pc = started(treq[t])]
    /\ UNCHANGED << translation_jobs, pending_requests, futures, handed >>
    /\ UNCHANGED << wf_table, workflow_cache, pc, local, published >>
    /\ UNCHANGED engine_vars
    /\ UNCHANGED << registry_vars, gateway_vars, producer_vars >>

\* the delivery report is an error: send_message raises, the request answers 500
translate_delivery_failed(t) ==
    /\ treq[t].pc = "delivery"
    /\ treq' = [treq EXCEPT ![t].pc = "failed"]
    /\ undelivered' = undelivered \cup {[key |-> t, from |-> "start_translation_job"]}
    /\ UNCHANGED << translation_jobs, pending_requests, futures, handed >>
    /\ UNCHANGED << wf_table, workflow_cache, pc, local, published >>
    /\ UNCHANGED engine_vars
    /\ UNCHANGED << registry_vars, gateway_vars, producer, outbox, sends >>

\* the caller of wait_for_response has the source_id from the answer of the
\* request that created the job
Returned(w) ==
    IF w \in JobIds
    THEN req[w] = "started" /\ treq[w].pc = "none"
    ELSE treq[w].pc = "returned_id"

\* wait_for_response(source_id), called for a job whose request returned the
\* source_id at once: registers and starts to wait in one go
wait_for_response(t) ==
    /\ Returned(t)
    /\ LET reg == register_request(pending_requests, futures, t)
       IN  /\ pending_requests' = reg.pending
           /\ futures' = reg.futures
           /\ treq' = [treq EXCEPT ![t].pc = "waiting", ![t].future = reg.future]
    /\ UNCHANGED << translation_jobs, handed >>
    /\ UNCHANGED << wf_table, workflow_cache, pc, local, published >>
    /\ UNCHANGED engine_vars
    /\ UNCHANGED << registry_vars, gateway_vars, producer_vars >>

\* asyncio.wait_for(future, timeout) returns the future's result
wait_for_returns(t) ==
    /\ treq[t].pc = "waiting"
    /\ futures[treq[t].future].state = "done"
    /\ LET result == futures[treq[t].future].result
       IN  treq' = [treq EXCEPT
                ![t].pc = IF result # NoPayload THEN "returned_result" ELSE "returned_empty",
                ![t].result = result]
    /\ UNCHANGED << translation_jobs, pending_requests, futures, handed >>
    /\ UNCHANGED << wf_table, workflow_cache, pc, local, published >>
    /\ UNCHANGED engine_vars
    /\ UNCHANGED << registry_vars, gateway_vars, producer_vars >>

\* the timeout of asyncio.wait_for elapses with the future still pending: the
\* future is cancelled, TimeoutError is on its way to the waiting coroutine
wait_for_timeout(t) ==
    /\ treq[t].pc = "waiting"
    /\ futures[treq[t].future].state = "pending"
    /\ futures' = [futures EXCEPT ![treq[t].future] = cancel(@)]
    /\ treq' = [treq EXCEPT ![t].pc = "timed_out"]
    /\ UNCHANGED << translation_jobs, pending_requests, handed >>
    /\ UNCHANGED << wf_table, workflow_cache, pc, local, published >>
    /\ UNCHANGED engine_vars
    /\ UNCHANGED << registry_vars, gateway_vars, producer_vars >>

\* except asyncio.TimeoutError (router.py:290-302, and the same in
\* wait_for_response): the entry is popped, the timed-out answer returned
translate_timeout(t) ==
    /\ treq[t].pc = "timed_out"
    /\ pending_requests' = pop(pending_requests, t)
    /\ treq' = [treq EXCEPT ![t].pc = "returned_timeout"]
    /\ UNCHANGED << translation_jobs, futures, handed >>
    /\ UNCHANGED << wf_table, workflow_cache, pc, local, published >>
    /\ UNCHANGED engine_vars
    /\ UNCHANGED << registry_vars, gateway_vars, producer_vars >>

\* ------------------------------- process_response, translation job branch
\* the select finds a translation job and the response carries translations
process_response_translation_load(c) ==
    /\ pc[c] = "received"
    /\ translation_job_of(local[c].data).exists
    /\ Has(local[c].data, "translations")
    /\ LET job == translation_job_of(local[c].data)
       IN  local' = [local EXCEPT ![c].source_id = job.source_id, ![c].job = job]
    /\ pc' = [pc EXCEPT ![c] = "translation_loaded"]
    /\ UNCHANGED correlator_vars
    /\ UNCHANGED << wf_table, workflow_cache, published >>
    /\ UNCHANGED engine_vars
    /\ UNCHANGED << registry_vars, gateway_vars, producer_vars >>

\* the select finds a translation job, the response carries no translations:
\* process_response returns
process_response_translation_skip(c) ==
    /\ pc[c] = "received"
    /\ translation_job_of(local[c].data).exists
    /\ ~Has(local[c].data, "translations")
    /\ pc' = [pc EXCEPT ![c] = "poll"]
    /\ local' = [local EXCEPT ![c] = NoLocal]
    /\ UNCHANGED correlator_vars
    /\ UNCHANGED << wf_table, workflow_cache, published >>
    /\ UNCHANGED engine_vars
    /\ UNCHANGED << registry_vars, gateway_vars, producer_vars >>

\* a commit that sets the status without its where clause: every stored job
\* of either table becomes DONE
process_response_translation_commit_all(c) ==
    /\ pc[c] = "translation_loaded"
    /\ LET job == [local[c].job EXCEPT !.translations = local[c].data.translations,
                                       !.status = DONE]
       IN  /\ translation_jobs' = [t \in DOMAIN translation_jobs |-> job]
           /\ local' = [local EXCEPT ![c].job = job]
    /\ job_table' = [j \in DOMAIN job_table |->
                        IF job_table[j].exists
                        THEN [job_table[j] EXCEPT !.source_status = DONE]
                        ELSE job_table[j]]
    /\ pc' = [pc EXCEPT ![c] = "notify"]
    /\ UNCHANGED << pending_requests, futures, treq, handed >>
    /\ UNCHANGED << wf_table, workflow_cache, published >>
    /\ UNCHANGED << req, store_changes, handled, answered, dropped >>
    /\ UNCHANGED << registry_vars, gateway_vars, producer_vars >>

\* translations and status DONE are set and committed
process_response_translation_commit(c) ==
    /\ pc[c] = "translation_loaded"
    /\ LET source_id == local[c].source_id
           loaded == local[c].job
           job == [loaded EXCEPT !.translations = local[c].data.translations,
                                 !.status = DONE]
       IN  /\ translation_jobs' = [translation_jobs EXCEPT
                                      ![source_id] = commit(@, loaded, job)]
           /\ local' = [local EXCEPT ![c].job = job]
    /\ pc' = [pc EXCEPT ![c] = "notify"]
    /\ UNCHANGED << pending_requests, futures, treq, handed >>
    /\ UNCHANGED << wf_table, workflow_cache, published >>
    /\ UNCHANGED engine_vars
    /\ UNCHANGED << registry_vars, gateway_vars, producer_vars >>

\* the payload process_response hands to handle_response (workflow_service.py:53-57)
response_data(source_id, data) ==
    [source_id |-> source_id, translations |-> data.translations, status |-> "completed"]

\* request t has registered its future and the deadline of its wait has not
\* passed
BeforeDeadline(t) ==
    /\ treq[t].future # 0
    /\ treq[t].pc \in {"registered", "delivery", "waiting"}

\* handle_response is called with the payload, and process_response returns
process_response_notify(c) ==
    /\ pc[c] = "notify"
    /\ LET source_id == local[c].source_id
           payload == response_data(source_id, local[c].data)
           res == handle_response(pending_requests, futures, source_id, payload)
       IN  /\ pending_requests' = res.pending
           /\ futures' = res.futures
           /\ handed' = [handed EXCEPT ![source_id] =
                            IF @ = NoPayload /\ BeforeDeadline(source_id)
                            THEN payload ELSE @]
    /\ pc' = [pc EXCEPT ![c] = "poll"]
    /\ local' = [local EXCEPT ![c] = NoLocal]
    /\ UNCHANGED << translation_jobs, treq >>
    /\ UNCHANGED << wf_table, workflow_cache, published >>
    /\ UNCHANGED engine_vars
    /\ UNCHANGED << registry_vars, gateway_vars, producer_vars >>

\* ---------------------------------------------------------- specification
\* the workflow tables hold any "general" workflow and, as
\* populate_workflows.py leaves them, none named "translation"
Init ==
    /\ InitEngine
    /\ InitCorrelator
    /\ InitRegistry
    /\ InitGateway
    /\ InitProducer
    /\ \E row \in WorkflowRows :
          wf_table = [n \in StoreNames |->
                        IF n \in WorkflowNames THEN row
                        ELSE IF n = TranslationOnly THEN translation_only_row
                        ELSE NoWorkflowRow]

Authority ==
    \/ \E name \in WorkflowNames, row \in WorkflowRows : StoreUpdate(name, row)
    \/ clear_cache

Requests ==
    \/ \E j \in JobIds, name \in WorkflowNames : CreateJob(j, name)
    \/ \E j \in JobIds : start_job(j)
    \/ \E j \in JobIds : StartDelivered(j)
    \/ \E j \in JobIds : StartDeliveryFailed(j)

Handlers ==
    \/ \E c \in ResponseTopics : process_response_load(c)
    \/ \E c \in ResponseTopics : process_response_update(c)
    \/ \E c \in ResponseTopics : process_response_advance(c)
    \/ \E c \in ResponseTopics : process_response_send(c)
    \/ \E c \in ResponseTopics : process_response_delivered(c)
    \/ \E c \in ResponseTopics : process_response_delivery_failed(c)

\* the job state machine: workflows change under the jobs, responses carry
\* the identifier
Next ==
    \/ Authority
    \/ Requests
    \/ \E c \in ResponseTopics, data \in ControlMessages : Deliver(c, data)
    \/ \E c \in ResponseTopics : process_response_drop(c)
    \/ Handlers

Spec == Init /\ [][Next]_vars

\* the same with the event loop running the handlers on: a handler whose
\* commit has returned goes on to _send_to_step
SpecAdvance ==
    Spec /\ \A c \in ResponseTopics : WF_vars(process_response_send(c))

\* the merge of result fields: the workflows stay as they are, responses
\* carry every combination of fields
NextMerge ==
    \/ Requests
    \/ \E c \in ResponseTopics, data \in PayloadMessages : Deliver(c, data)
    \/ Handlers

\* the tables as populate_workflows.py leaves them
populated ==
    [n \in StoreNames |->
        IF n \in WorkflowNames
        THEN [exists |-> TRUE, is_active |-> TRUE, steps |-> StepRows(Len(general_steps))]
        ELSE IF n = TranslationOnly THEN translation_only_row
        ELSE NoWorkflowRow]

InitMerge ==
    /\ InitEngine
    /\ InitCorrelator
    /\ InitRegistry
    /\ InitGateway
    /\ InitProducer
    /\ wf_table = populated

SpecMerge == InitMerge /\ [][NextMerge]_vars

\* the steps of a /translate request and of a wait
Translate(t) ==
    \/ \E wait_for_result \in BOOLEAN : translate_create(t, wait_for_result)
    \/ translate_register(t)
    \/ start_translation_job(t)
    \/ translate_delivered(t)
    \/ translate_delivery_failed(t)
    \/ wait_for_response(t)

\* what the event loop does for a wait that has begun: the result or the
\* timeout is passed to the waiting coroutine, which then runs on
Wait(t) ==
    \/ wait_for_returns(t)
    \/ wait_for_timeout(t)
    \/ translate_timeout(t)

\* translation requests and the responses that answer them
NextCorrelator ==
    \/ \E t \in TranslationIds : Translate(t)
    \/ \E t \in TranslationIds : Wait(t)
    \/ \E c \in ResponseTopics, data \in TranslationMessages : Deliver(c, data)
    \/ \E c \in ResponseTopics : process_response_drop(c)
    \/ \E c \in ResponseTopics : process_response_translation_load(c)
    \/ \E c \in ResponseTopics : process_response_translation_skip(c)
    \/ \E c \in ResponseTopics : process_response_translation_commit(c)
    \/ \E c \in ResponseTopics : process_response_notify(c)
    \/ _cleanup_expired_futures

\* a workflow named "translation" with the first stage of "general" as its
\* only step
translation_row == [exists |-> TRUE, is_active |-> TRUE, steps |-> StepRows(1)]

\* the tables as populate_workflows.py leaves them, with or without a
\* workflow named "translation" added to them
InitCorrelatorSpec ==
    /\ InitEngine
    /\ InitCorrelator
    /\ InitRegistry
    /\ InitGateway
    /\ InitProducer
    /\ \E row \in {NoWorkflowRow, translation_only_row, translation_row} :
          wf_table = [populated EXCEPT ![TranslationWorkflow] = row]

\* the event loop runs every callback that is ready and every timer that is
\* due: a wait that has begun goes on
SpecCorrelator ==
    /\ InitCorrelatorSpec
    /\ [][NextCorrelator]_vars
    /\ \A t \in TranslationIds : WF_vars(Wait(t))

\* the same with the periodic sweep running: every 60 seconds a pass is made
SpecSweep == SpecCorrelator /\ WF_vars(_cleanup_expired_futures)

\* a transcription job and a translation job side by side, their responses
\* handled by the same consumer loops in any order
NextFrame ==
    \/ Requests
    \/ \E t \in TranslationIds : Translate(t)
    \/ \E t \in TranslationIds : Wait(t)
    \/ \E c \in ResponseTopics :
          \E data \in { m \in ControlMessages \cup TranslationMessages :
                          m.source_id \in JobIds \cup TranslationIds } :
             Deliver(c, data)
    \/ Handlers
    \/ \E c \in ResponseTopics : process_response_translation_load(c)
    \/ \E c \in ResponseTopics : process_response_translation_skip(c)
    \/ \E c \in ResponseTopics : process_response_translation_commit(c)
    \/ \E c \in ResponseTopics : process_response_notify(c)

SpecFrame == InitCorrelatorSpec /\ [][NextFrame]_vars

\* what the event loop does for a wait on a transcription job: nothing
\* completes its future, the wait can only time out
WaitOnJob(j) ==
    \/ wait_for_response(j)
    \/ wait_for_timeout(j)
    \/ translate_timeout(j)

\* transcription jobs of the populated "general" workflow and the waits
\* registered under their identifiers
NextWaiter ==
    \/ Requests
    \/ \E j \in JobIds : WaitOnJob(j)
    \/ \E c \in ResponseTopics, data \in ControlMessages : Deliver(c, data)
    \/ \E c \in ResponseTopics : process_response_drop(c)
    \/ Handlers
    \/ _cleanup_expired_futures

SpecWaiter == InitMerge /\ [][NextWaiter]_vars

\* the registry alone: lookups by two callers at once while the tables are
\* rewritten and the caches cleared
NextRegistry ==
    \/ \E name \in WorkflowNames, row \in RegistryRows : StoreUpdate(name, row)
    \/ \E route_path \in RoutePaths, row \in RouteRows : RouteUpdate(route_path, row)
    \/ clear_cache
    \/ \E p \in Callers, name \in WorkflowNames : get_workflow_config_call(p, name)
    \/ \E p \in Callers, route_path \in RoutePaths : get_route_config_call(p, route_path)
    \/ \E p \in Callers : get_all_response_topics_call(p)
    \/ \E p \in Callers : execute(p)
    \/ \E p \in Callers : get_workflow_config_resume(p)
    \/ \E p \in Callers : get_route_config_resume(p)
    \/ \E p \in Callers : get_all_response_topics_resume(p)

\* the tables as populate_workflows.py leaves them; the workflow of
\* translations there, switched off or missing
InitRegistrySpec ==
    /\ InitEngine
    /\ InitCorrelator
    /\ InitRegistry
    /\ InitGateway
    /\ InitProducer
    /\ \E row \in {NoWorkflowRow, translation_only_row,
                    [translation_only_row EXCEPT !.is_active = FALSE]} :
          wf_table = [populated EXCEPT ![TranslationWorkflow] = row]

SpecRegistry == InitRegistrySpec /\ [][NextRegistry]_vars

\* the steps of one topic's consumer task
Loop(topic) ==
    \/ consume_messages_begin(topic)
    \/ poll_nothing(topic)
    \/ poll_undecodable(topic)
    \/ \E kind \in MessageKinds \ {"undecodable"} : poll_message(topic, kind)
    \/ handler_commits(topic)
    \/ handler_ends(topic)
    \/ cancelled(topic)
    \/ poll_thread_returns(topic)

\* the steps of stop_all_consumers
Stop ==
    \/ \E idempotent \in BOOLEAN : stop_all_consumers(idempotent)
    \/ \E idempotent \in BOOLEAN : stop_all_consumers_awaited(idempotent)

\* the gateway: startup registers handlers and starts consumers, the loops
\* poll and handle, shutdown stops them
NextGateway ==
    \/ \E topic \in ResponseTopics, handler \in HandlerIds : register_consumer(topic, handler)
    \/ \E topic \in ResponseTopics : start_consumer(topic)
    \/ \E topic \in ResponseTopics : Loop(topic)
    \/ Stop

InitGatewaySpec ==
    /\ InitEngine
    /\ InitCorrelator
    /\ InitRegistry
    /\ InitGateway
    /\ InitProducer
    /\ wf_table = populated

\* the event loop runs every task that is ready: a cancelled task gets its
\* CancelledError, a handler that can run on does, stop_all_consumers runs
\* on when the task it awaits has ended
SpecGateway ==
    /\ InitGatewaySpec
    /\ [][NextGateway]_vars
    /\ WF_vars(Stop)
    /\ \A topic \in ResponseTopics : WF_vars(cancelled(topic))

\* the producer: two coroutines send while the broker reports and shutdown
\* flushes
NextProducer ==
    \/ \E c \in Senders, report \in {"none", "ok", "err"} : send_message(c, report)
    \/ \E i \in 1..MaxSends, report \in {"ok", "err"} : broker_report(i, report)
    \/ \E c \in Senders : send_message_resume(c)
    \/ stop_producer

SpecProducer == InitGatewaySpec /\ [][NextProducer]_vars

\* the same with what goes on by itself: the broker and the client library
\* come to a report for every message, and the event loop resumes a
\* coroutine whose future is done; whether anyone calls send_message or
\* stop_producer again is up to the callers
SpecProducerRuns ==
    /\ SpecProducer
    /\ \A c \in Senders : WF_vars(send_message_resume(c))
    /\ \A i \in 1..MaxSends : WF_vars(\E report \in {"ok", "err"} : broker_report(i, report))

\* the handler table alone: registrations, responses, timeouts and sweeps
\* in any order
NextHandles ==
    \/ \E source_id \in WaiterIds : register_request_call(source_id)
    \/ \E source_id \in WaiterIds :
          \E payload \in Payloads(source_id) : handle_response_call(source_id, payload)
    \/ \E future \in 1..MaxFutures : wait_for_cancels(future)
    \/ \E source_id \in WaiterIds : pop_call(source_id)
    \/ _cleanup_expired_futures

SpecHandles == InitGatewaySpec /\ [][NextHandles]_vars

\* ------------------------------------------------------------------ claims
\* the steps of the workflow a job's source_type is cached under
StepsOf(j) == workflow_cache[job_table[j].source_type].steps

\* a step of the handler invocation of consumer loop c
HandlerStep(c) == pc'[c] # pc[c] \/ local'[c] # local[c]

\* C1: a job whose workflow has N >= 1 steps, started by start_job and then
\* given N responses that are handled one after another, every publish
\* acknowledged, is DONE with workflow_step N-1.
C1_SequentialResponsesComplete ==
    \A j \in JobIds :
        (handled[j] >= 1 /\ handled[j] = Len(StepsOf(j)))
            => /\ job_table[j].source_status = DONE
               /\ int(job_table[j].workflow_step) = Len(StepsOf(j)) - 1

C1_Witness ==
    \E j \in JobIds :
        /\ handled[j] = MaxSteps
        /\ Len(StepsOf(j)) = MaxSteps
        /\ job_table[j].source_status = DONE

\* get_workflow_config would return a workflow for this name
Resolves(name) ==
    \/ workflow_cache[name].found
    \/ wf_table[name].exists /\ wf_table[name].is_active

\* C2: start_job on a job whose workflow name does not resolve leaves the
\* stored status ERROR and publishes nothing.
C2_UnresolvedWorkflowIsError ==
    [][\A j \in JobIds :
         (req[j] = "created" /\ req'[j] # "created"
            /\ ~Resolves(job_table[j].source_type))
         => /\ job_table'[j].source_status = ERROR
            /\ published' = published]_vars

C2_Witness ==
    \E j \in JobIds :
        /\ req[j] = "no_workflow"
        /\ job_table[j].source_status = ERROR
        /\ published = EmptyBag

\* the message consumer loop c is handling answers a step the job has
\* already left: a response on c has advanced the job before, c is the
\* response topic of an earlier step and not of the step the job is at
DuplicateOfEarlierStep(c) ==
    LET job == local[c].job
        steps == workflow_cache[job.source_type].steps
        at == int(job.workflow_step)
    IN  /\ c \in answered[job.source_id]
        /\ workflow_cache[job.source_type].found
        /\ at + 1 <= Len(steps)
        /\ steps[at + 1].response_topic # c
        /\ \E k \in 1..at : steps[k].response_topic = c

\* C3: handling a response that answers a step the job has already left
\* leaves workflow_step unchanged and dispatches nothing.
C3_DuplicateLeavesStep ==
    [][\A c \in ResponseTopics :
         (pc[c] = "advance" /\ HandlerStep(c) /\ DuplicateOfEarlierStep(c))
         => /\ job_table'[local[c].source_id].workflow_step
                  = job_table[local[c].source_id].workflow_step
            /\ pc'[c] # "send"]_vars

\* C4: once a job is DONE or ERROR, handling a response changes neither its
\* status nor its workflow_step.
C4_TerminalIsAbsorbing ==
    [][\A c \in ResponseTopics, j \in JobIds :
         (HandlerStep(c) /\ job_table[j].source_status \in {DONE, ERROR})
         => /\ job_table'[j].source_status = job_table[j].source_status
            /\ job_table'[j].workflow_step = job_table[j].workflow_step]_vars

\* C5: once a job is DONE or ERROR, nothing more is published for it.
C5_NoDispatchAfterTerminal ==
    [][\A j \in JobIds :
         job_table[j].source_status \in {DONE, ERROR}
         => PublishedFor(published', j) = PublishedFor(published, j)]_vars

\* the message carries no identifier, or one that no stored job has
Uncorrelated(data) ==
    \/ data.source_id = Absent
    \/ /\ \A j \in DOMAIN job_table :
             job_table[j].exists => j # data.source_id
       /\ \A t \in DOMAIN translation_jobs :
             translation_jobs[t].exists => t # data.source_id

\* C6: a response without an identifier, or with one no stored job has, is
\* dropped: the handler returns to the poll, no row is written, nothing is
\* published, no waiter is touched.
C6_UncorrelatedIsDropped ==
    [][\A c \in ResponseTopics :
         (pc[c] = "received" /\ HandlerStep(c) /\ Uncorrelated(local[c].data))
         => /\ pc'[c] = "poll"
            /\ UNCHANGED << job_table, translation_jobs, published,
                            pending_requests, futures, workflow_cache >>]_vars

C6_Witness ==
    \E j \in JobIds :
        /\ dropped
        /\ job_table[j].exists
        /\ job_table[j].source_status = IN_PROGRESS
        /\ PublishedFor(published, j) = 1

\* C7: workflow_step starts at 0, and every step of start_job or
\* process_response leaves it equal or adds exactly one.
C7_StepNeverDecreases ==
    [][\A j \in JobIds :
         IF ~job_table[j].exists
         THEN job_table'[j].exists => int(job_table'[j].workflow_step) = 0
         ELSE \/ job_table'[j].workflow_step = job_table[j].workflow_step
              \/ int(job_table'[j].workflow_step)
                    = int(job_table[j].workflow_step) + 1]_vars

\* C8: when handle_response is given a payload for a job after its
\* register_request and before the deadline of the wait, the wait does not
\* time out, and what the waiting caller receives is that payload.
C8_WaiterReceivesPayload ==
    \A t \in TranslationIds :
        handed[t] # NoPayload
        => /\ treq[t].pc \notin {"timed_out", "returned_timeout", "returned_empty"}
           /\ treq[t].pc = "returned_result" => treq[t].result = handed[t]

C8_Witness ==
    \E t \in TranslationIds :
        /\ treq[t].pc = "returned_result"
        /\ treq[t].result = handed[t]
        /\ treq[t].result.source_id = t
        /\ treq[t].result.translations = "salut"

\* C9: a wait whose job handle_response is not called for ends timed out,
\* and once it has, _pending_requests has no entry for the job.
C9_TimeoutRemovesWaiter ==
    \A t \in TranslationIds :
        /\ (treq[t].pc = "waiting") ~> (treq[t].pc = "returned_timeout" \/ handed[t] # NoPayload)
        /\ [](treq[t].pc = "returned_timeout" => pending_requests[t] = 0)

C9_Witness ==
    \E t \in TranslationIds :
        /\ treq[t].pc = "returned_timeout"
        /\ handed[t] = NoPayload
        /\ pending_requests[t] = 0
        /\ futures[treq[t].future].state = "cancelled"

\* the result columns of a job row, and the message key each is set from
ResultKey == [transcription |-> "output", translations |-> "translations"]

\* C10: the merge of a response into a job writes, of the stored row, only
\* the result columns whose key the response carries, each with the
\* response's value; when the row is as the handler loaded it, every carried
\* key is stored, so an output-only response followed by a translations-only
\* response leaves both; a key that is no result key (language) is not stored.
C10_MergeIsKeyWise ==
    [][\A c \in ResponseTopics :
         (pc[c] = "loaded" /\ HandlerStep(c))
         => LET j == local[c].source_id
                data == local[c].data
            IN  /\ \A col \in DOMAIN NoJob :
                      job_table'[j][col] # job_table[j][col]
                      => /\ col \in DOMAIN ResultKey
                         /\ Has(data, ResultKey[col])
                         /\ job_table'[j][col] = data[ResultKey[col]]
                /\ \A col \in DOMAIN ResultKey :
                      Has(data, ResultKey[col])
                      => /\ local'[c].job[col] = data[ResultKey[col]]
                         /\ local[c].job = job_table[j]
                                => job_table'[j][col] = data[ResultKey[col]]]_vars

C10_Witness ==
    \E c \in ResponseTopics, j \in JobIds :
        /\ pc[c] = "advance"
        /\ local[c].source_id = j
        /\ ~Has(local[c].data, "output")
        /\ local[c].data.translations = "hola"
        /\ local[c].data.language = "xx"
        /\ handled[j] = 1
        /\ job_table[j].transcription = "hello"
        /\ job_table[j].translations = "hola"
        /\ job_table[j].language = "en"

\* the workflow _advance_workflow or start_job gets for this name now
WorkflowNow(name) == get_workflow_config(workflow_cache, wf_table, name).workflow

\* C11: when process_response has loaded a job that is IN_PROGRESS at step k
\* and the workflow it gets has a step k+1, the stored workflow_step becomes
\* k+1, and the handler then produces exactly one message: to the dispatch
\* topic of steps[k+1], keyed by the job identifier; the other segments of
\* the handler produce nothing.
C11_AdvanceDispatchesNextStep ==
    [][\A c \in ResponseTopics :
         HandlerStep(c)
         => LET j == local[c].source_id
                job == local[c].job
                k == int(job.workflow_step)
                workflow == WorkflowNow(job.source_type)
            IN  /\ (/\ pc[c] = "advance"
                    /\ job.source_status = IN_PROGRESS
                    /\ workflow.found
                    /\ k + 1 < Len(workflow.steps))
                   => /\ int(job_table'[j].workflow_step) = k + 1
                      /\ pc'[c] = "send"
                      /\ local'[c].out =
                            << Dispatch(workflow.steps[k + 2].topic,
                                        [source_id |-> j], j) >>
                /\ pc[c] = "send"
                   => /\ local[c].out # NoDispatch
                      /\ published' = published (+) SetToBag({local[c].out[1]})
                /\ pc[c] # "send" => published' = published]_vars

C11_Witness ==
    \E c \in ResponseTopics, j \in JobIds :
        /\ pc[c] = "delivery"
        /\ local[c].source_id = j
        /\ handled[j] = 1
        /\ job_table[j].source_status = IN_PROGRESS
        /\ int(job_table[j].workflow_step) = 2
        /\ PublishedFor(published, j) = 3
        /\ local[c].out[1].topic = StepAt(3).topic

\* C12: start_job on a job whose workflow name resolves produces exactly one
\* message, to the dispatch topic of steps[0] and keyed by the job
\* identifier, and leaves the stored job IN_PROGRESS with workflow_step 0.
C12_StartDispatchesStepZero ==
    [][\A j \in JobIds :
         (req[j] = "created" /\ req'[j] # "created"
            /\ Resolves(job_table[j].source_type))
         => LET workflow == WorkflowNow(job_table[j].source_type)
            IN  /\ Len(workflow.steps) >= 1
                /\ published' = published (+)
                      SetToBag({Dispatch(workflow.steps[1].topic,
                                         [source_id |-> j], j)})
                /\ job_table'[j].source_status = IN_PROGRESS
                /\ int(job_table'[j].workflow_step) = 0]_vars

\* C14: get_workflow_config neither returns nor caches a workflow without
\* steps, and no job is started against one.
C14_EmptyWorkflowRejected ==
    /\ \A name \in StoreNames :
          workflow_cache[name].found => Len(workflow_cache[name].steps) >= 1
    /\ \A j \in JobIds : req[j] # "invalid_step"

\* the stored status of the job of either kind
StatusOf(w) ==
    IF w \in JobIds THEN job_table[w].source_status ELSE translation_jobs[w].status

\* a future is registered under w and not yet completed
WaiterPending(w) ==
    pending_requests[w] # 0 /\ ~done(futures[pending_requests[w]])

\* C13: when a step of process_response stores status DONE for a job under
\* whose identifier a future is registered, the handler goes on to
\* handle_response, after the commit and not with it; handle_response finds
\* the job stored as DONE and completes the future with the job's
\* identifier and the payload the handler stored.
C13_DoneResolvesWaiter ==
    [][\A c \in ResponseTopics :
         HandlerStep(c)
         => /\ \A w \in WaiterIds :
                  (/\ StatusOf(w) # DONE
                   /\ StatusOf(w)' = DONE
                   /\ WaiterPending(w))
                  => /\ pc'[c] = "notify"
                     /\ futures' = futures
            /\ pc[c] = "notify"
               => LET w == local[c].source_id
                  IN  /\ StatusOf(w) = DONE
                      /\ WaiterPending(w)
                         => futures'[pending_requests[w]] =
                               [state |-> "done",
                                result |-> [source_id |-> w,
                                            translations |-> local[c].job.translations,
                                            status |-> "completed"]]]_vars

\* caller p's get_workflow_config returns in this step, from the cache
\* (at the call) or with what the store returned
WorkflowReturn(p) ==
    /\ lookups'[p].pc = "idle"
    /\ lookups'[p].kind = "workflow"
    /\ \/ lookups[p].pc = "fetched"
       \/ lookups[p].pc = "idle" /\ lookups'[p] # lookups[p]

\* C15: once get_workflow_config has returned a workflow for a name, every
\* call for that name begun later returns that workflow, from the cache,
\* until clear_cache; clear_cache empties the workflow cache and the route
\* cache; the first call begun after it gets what the store held then or
\* holds since, not an older row.
C15_CachedUntilCleared ==
    [][/\ \A p \in Callers :
            WorkflowReturn(p)
            => LET hit == lookups[p].pc = "idle"
                   before == IF hit THEN settled[lookups'[p].name] ELSE lookups[p].expect
               IN  before # {}
                   => /\ hit
                      /\ \A workflow \in before : lookups'[p].result = workflow
       /\ (store_changes' # store_changes /\ wf_table' = wf_table
             /\ route_table' = route_table)
          => /\ \A n \in StoreNames : ~workflow_cache'[n].found
             /\ \A r \in RoutePaths : ~route_cache'[r].exists
       /\ \A n \in WorkflowNames :
            fresh'[n] = "no" => fresh[n] # "stale"]_vars

\* C16: get_all_response_topics returns the response topics of the steps of
\* the workflows that are active in the store when the store evaluates the
\* call, whatever the workflow cache holds.
C16_ResponseTopicsFromStore ==
    [][\A p \in Callers :
         /\ (lookups[p].kind = "topics" /\ lookups[p].pc = "query"
               /\ lookups'[p].pc = "fetched")
            => \A topic \in ResponseTopics \cup {None} :
                  topic \in lookups'[p].row
                  <=> \E n \in StoreNames :
                         /\ wf_table[n].exists
                         /\ wf_table[n].is_active
                         /\ \E step \in wf_table[n].steps : step.response_topic = topic
         /\ (lookups[p].kind = "topics" /\ lookups[p].pc = "fetched"
               /\ lookups'[p].pc = "idle")
            => lookups'[p].result = lookups[p].row]_vars

C16_Witness ==
    \E p \in Callers :
        /\ lookups[p].pc = "idle"
        /\ lookups[p].kind = "topics"
        /\ lookups[p].result = {"generic_translate_response"}
        /\ Len(workflow_cache["general"].steps) = 2
        /\ wf_table["general"].exists
        /\ ~wf_table["general"].is_active
        /\ wf_table[TranslationOnly].is_active
        /\ ~wf_table[TranslationWorkflow].is_active
        /\ Cardinality(wf_table[TranslationWorkflow].steps) = 1

\* the last message polled on the topic got this far in this step
Reached(topic, progress) ==
    /\ log'[topic] # log[topic]
    /\ log'[topic][Len(log'[topic])].progress = progress

\* C17: a message that cannot be decoded, or on which the handler raises,
\* does not end the consumer loop of its topic: the consumer stays open, the
\* loop polls again, and the next message is decoded and handled.
C17_LoopSurvivesBadMessage ==
    [][\A topic \in ResponseTopics :
         (_running /\ (Reached(topic, "dropped") \/ Reached(topic, "raised")))
         => /\ loops'[topic].pc = "poll"
            /\ polling'[topic]
            /\ closed'[topic] = closed[topic]]_vars

C17_Witness ==
    \E topic, other \in ResponseTopics :
        /\ _running
        /\ log[topic] = << [kind |-> "undecodable", progress |-> "dropped"],
                           [kind |-> "ok", progress |-> "done"] >>
        /\ log[other] = << [kind |-> "poison", progress |-> "raised"],
                           [kind |-> "ok", progress |-> "done"] >>

\* C18: stop_all_consumers leaves no message half handled: a handler that
\* is in progress when it is called runs to its end before
\* stop_all_consumers returns.
C18_StopWaitsForHandler ==
    \A topic \in ResponseTopics :
        \A i \in 1..Len(log[topic]) :
            /\ log[topic][i].progress # "abandoned"
            /\ stopper.pc \in {"returned", "raised"}
               => log[topic][i].progress \in {"dropped", "raised", "done"}

\* C19: stop_all_consumers, once called, comes to its end; when it has
\* returned, every consumer task has ended, every consumer that was created
\* has been closed, and self.consumers and self.consumer_tasks are empty.
C19_StopTerminatesClean ==
    /\ (stopper.pc = "awaiting") ~> (stopper.pc \in {"returned", "raised"})
    /\ [](stopper.pc = "returned"
            => /\ \A topic \in ResponseTopics :
                     /\ loops[topic].pc \in {"none", "exited", "cancelled"}
                     /\ loops[topic].pc # "none" => closed[topic] >= 1
                     /\ ~polling[topic]
               /\ consumers = << >>
               /\ consumer_tasks = << >>)

C19_Witness ==
    /\ stopper.pc = "returned"
    /\ consumers = << >>
    /\ \A topic \in ResponseTopics : closed[topic] >= 1
    /\ \E topic, other \in ResponseTopics :
          /\ loops[topic].pc = "cancelled"
          /\ log[topic] # << >>
          /\ loops[other].pc = "exited"
          /\ loops[other].handler = None

\* C20: for a topic that has a consumer, register_consumer changes nothing:
\* the entry of self.handlers stays, and the handler the loop calls is that
\* entry.
C20_ReRegistrationIsNoOp ==
    [][\A topic \in ResponseTopics :
         In(topic, consumers)
         => /\ handlers'[topic] = handlers[topic]
            /\ loops'[topic].handler # None
               => loops'[topic].handler = handlers[topic]]_vars

\* the messages of the outbox that caller c produced
ProducedBy(c) == { i \in DOMAIN outbox : outbox[i].caller = c }

\* C21: send_message has returned only when the delivery callback of its
\* message has reported success, has raised only when it has reported a
\* failure, and each call has produced its message once.
C21_SendFollowsDeliveryReport ==
    \A c \in Senders :
        /\ sends[c].pc = "returned"
           => /\ outbox[sends[c].message].report = "ok"
              /\ outbox[sends[c].message].future = "result"
        /\ sends[c].pc = "raised"
           => /\ outbox[sends[c].message].report = "err"
              /\ outbox[sends[c].message].future = "exception"
        /\ Cardinality(ProducedBy(c)) = sends[c].calls

C21_Witness ==
    \E c, d \in Senders :
        /\ sends[c].pc = "returned"
        /\ sends[d].pc = "raised"
        /\ sends[c].calls = 2
        /\ outbox[sends[c].message].caller = c
        /\ outbox[sends[d].message].caller = d

\* a future no table entry refers to
Orphan(future) == \A w \in WaiterIds : pending_requests[w] # future

\* C22: a registration for a source_id whose entry is still pending puts
\* the new future in the entry's place and leaves the first future as it
\* is; the first future is then in no entry, and a future in no entry is
\* never completed by handle_response nor entered again: handle_response
\* completes the future of the entry, the second one.
C22_LastRegistrationWins ==
    [][/\ \A w \in WaiterIds :
             (/\ register_request_call(w)
              /\ pending_requests[w] # 0
              /\ ~done(futures[pending_requests[w]]))
             => /\ pending_requests'[w] = Len(futures) + 1
                /\ futures'[pending_requests'[w]] = PendingFuture
                /\ futures'[pending_requests[w]] = futures[pending_requests[w]]
                /\ \A f \in DOMAIN futures : pending_requests[w] = f => Orphan(f)'
                /\ \A v \in WaiterIds \ {w} : pending_requests'[v] = pending_requests[v]
       /\ \A f \in DOMAIN futures :
             Orphan(f) => /\ Orphan(f)'
                          /\ futures'[f].state # "done" \/ futures'[f] = futures[f]]_vars

C22_Witness ==
    /\ Len(futures) = 2
    /\ futures[1] = PendingFuture
    /\ futures[2].state = "done"
    /\ futures[2].result.source_id = "t1"
    /\ \A w \in WaiterIds : pending_requests[w] = 0

\* C23: handle_response(source_id, payload) with an entry for source_id
\* removes the entry and completes its future with the payload if the
\* future is still pending; without an entry it changes nothing; a future
\* that is done is never completed again.
C23_ResolveOnceOrNothing ==
    [][/\ \A w \in WaiterIds : \A payload \in Payloads(w) :
             handle_response_call(w, payload)
             => LET f == pending_requests[w]
                IN  /\ pending_requests' = [pending_requests EXCEPT ![w] = 0]
                    /\ f = 0 => futures' = futures
                    /\ f # 0 =>
                          /\ \A g \in DOMAIN futures \ {f} : futures'[g] = futures[g]
                          /\ futures'[f] = IF futures[f].state = "pending"
                                           THEN [state |-> "done", result |-> payload]
                                           ELSE futures[f]
       /\ \A f \in DOMAIN futures :
             done(futures[f]) => futures'[f] = futures[f]]_vars

C23_Witness ==
    \E f, g \in DOMAIN futures :
        /\ futures[f].state = "done"
        /\ futures[f].result \in Payloads("t1")
        /\ futures[g].state = "cancelled"
        /\ Orphan(f)
        /\ Orphan(g)
        /\ \A w \in WaiterIds : pending_requests[w] = 0

\* C24: a pass of _cleanup_expired_futures removes the entries whose future
\* is done and no other; an entry whose future is pending is there
\* afterwards, and a handle_response for it after the pass completes it.
C24_SweepRemovesOnlyDone ==
    [][_cleanup_expired_futures
       => \A w \in WaiterIds :
             LET f == pending_requests[w]
             IN  /\ (f # 0 /\ done(futures[f])) => pending_requests'[w] = 0
                 /\ (f # 0 /\ ~done(futures[f]))
                    => /\ pending_requests'[w] = f
                       /\ \A payload \in Payloads(w) :
                             handle_response(pending_requests', futures', w, payload)
                                 .futures[f] = [state |-> "done", result |-> payload]
                 /\ f = 0 => pending_requests'[w] = 0]_vars

C24_Witness ==
    \E w, v \in WaiterIds :
        /\ pending_requests[w] = 0
        /\ pending_requests[v] # 0
        /\ futures[pending_requests[v]] = PendingFuture
        /\ Len(futures) = 2
        /\ \E f \in DOMAIN futures : futures[f].state = "cancelled" /\ Orphan(f)

\* handler c has advanced job j to `step` and is publishing, or has
\* published, the dispatch of that step
Advanced(c, j, step) ==
    /\ pc[c] \in {"send", "delivery"}
    /\ local[c].source_id = j
    /\ local[c].job.workflow_step = step

\* C25: two responses for the same job that are processed at the same time,
\* each by the consumer loop of its own topic, never both advance the job
\* from the same workflow_step: no two handlers are at the dispatch of the
\* same step of the same job.
C25_NoConcurrentAdvance ==
    \A j \in JobIds : \A c, d \in ResponseTopics :
        c # d => ~(Advanced(c, j, local[c].job.workflow_step)
                     /\ Advanced(d, j, local[c].job.workflow_step))

\* C26: a lookup that begins after clear_cache() has returned never yields a
\* workflow older than the store held at the time of the clear, also when
\* another lookup for the same name was suspended on its read of the store
\* during the clear and has cached its result since: no call is answered
\* from a cache entry that such a lookup wrote.
C26_NothingOlderThanTheClear ==
    [][\A p \in Callers : \A n \in StoreNames :
          (get_workflow_config_call(p, n) /\ workflow_cache[n].found)
              => fresh[n] # "stale"]_vars

\* the synchronous request for t is over: it has returned a result, returned
\* after its timeout, or failed to start the job
Left(t) ==
    /\ treq[t].wait_for_result
    /\ treq[t].pc \in {"returned_result", "returned_empty", "returned_timeout", "failed"}

\* C27: on every path out of the synchronous request (result received,
\* timeout, failure to start the job after the registration) the waiter
\* table entry of the job is eventually removed.
C27_EntryRemovedOnEveryPath ==
    \A t \in TranslationIds : Left(t) ~> (pending_requests[t] = 0)

\* C28: in the synchronous translate path the waiter is registered before
\* the dispatch is published: at the step that publishes the dispatch of t
\* the table holds the request's pending future, it holds it for as long as
\* the deadline has not passed and no response was handled, and a response
\* handled in that time completes that future with its payload.
C28_RegisteredBeforeDispatch ==
    [][\A t \in TranslationIds :
          treq[t].wait_for_result =>
             /\ PublishedFor(published', t) > PublishedFor(published, t)
                   => /\ treq[t].future # 0
                      /\ pending_requests[t] = treq[t].future
                      /\ futures[treq[t].future] = PendingFuture
             /\ (/\ PublishedFor(published, t) > 0
                 /\ BeforeDeadline(t)
                 /\ futures[treq[t].future] = PendingFuture)
                   => /\ pending_requests[t] = treq[t].future
                      /\ \A c \in ResponseTopics :
                            (process_response_notify(c) /\ local[c].source_id = t)
                               => futures'[treq[t].future] =
                                     [state |-> "done",
                                      result |-> response_data(t, local[c].data)]]_vars

\* the response was handled while the request was still waiting for the
\* delivery report of its dispatch: the waiter is completed by then
C28_Witness ==
    \E t \in TranslationIds :
        /\ treq[t].wait_for_result
        /\ treq[t].pc = "delivery"
        /\ PublishedFor(published, t) = 1
        /\ futures[treq[t].future].state = "done"
        /\ futures[treq[t].future].result = handed[t]
        /\ handed[t].translations # None
        /\ pending_requests[t] = 0

\* the workflow name (source_type) the job with this source_id was created with
workflow_name_of(source_id) ==
    IF source_id \in TranslationIds
    THEN translation_jobs[source_id].source_type
    ELSE job_table[source_id].source_type

\* C29: every dispatch published for a job goes to a dispatch topic of the
\* workflow the store holds under the job's own workflow name (source_type),
\* for transcription jobs and for translation jobs alike.
C29_RoutedByOwnWorkflow ==
    [][\A m \in BagToSet(published') :
          CopiesIn(m, published') > CopiesIn(m, published)
             => \E step \in wf_table[workflow_name_of(m.key)].steps :
                   step.topic = m.topic]_vars

\* C30: when the publish of a dispatch fails, at the start or when
\* advancing, the failure reaches the caller of the dispatch (the request
\* fails, the handler is back in its loop without the message), no job row
\* is changed by it, so a job that was IN_PROGRESS stays so, and nothing is
\* published for it: a request that failed stays failed, and a message is
\* published only by a request that starts its job or by a handler that has
\* advanced the job for a response it received.
C30_FailedPublishIsLeftAlone ==
    [][/\ undelivered' # undelivered
          => /\ job_table' = job_table
             /\ published' = published
             /\ \A u \in undelivered' \ undelivered :
                   /\ u.from = "start_job"
                         => /\ req[u.key] = "delivery"
                            /\ req'[u.key] = "failed"
                            /\ answered[u.key] = {}
                                  => job_table'[u.key].source_status = IN_PROGRESS
                   /\ u.from = "_advance_workflow"
                         => \E c \in ResponseTopics :
                               /\ pc[c] = "delivery"
                               /\ local[c].source_id = u.key
                               /\ pc'[c] = "poll"
                               /\ local'[c] = NoLocal
       /\ \A j \in JobIds : req[j] = "failed" => req'[j] = "failed"
       /\ published' # published
          => \/ \E j \in JobIds : req[j] = "created" /\ req'[j] = "delivery"
             \/ \E c \in ResponseTopics :
                   /\ pc[c] = "send"
                   /\ pc'[c] = "delivery"
                   /\ c \in answered[local[c].source_id]]_vars

\* the dispatch of step 1 failed: the job is IN_PROGRESS at step 1, the
\* handler is back in its loop, and only the dispatch of step 0 and the one
\* that failed were ever produced
C30_Witness ==
    \E j \in JobIds :
        /\ undelivered = {[key |-> j, from |-> "_advance_workflow"]}
        /\ req[j] = "started"
        /\ job_table[j].source_status = IN_PROGRESS
        /\ job_table[j].workflow_step = str(1)
        /\ \A c \in ResponseTopics : pc[c] = "poll"
        /\ PublishedFor(published, j) = 2

C32_DispatchCarriesOnlyTheId ==
    \A m \in BagToSet(published) :
        /\ m.key \in JobIds \cup TranslationIds
        /\ DOMAIN m.value = {"source_id"}
        /\ m.value.source_id = m.key

\* the source_id of the response the handler of consumer loop c is working
\* on: that of the message while the handler holds it, afterwards the one
\* the handler kept
HandledId(c) ==
    IF local[c].data.source_id # Absent THEN local[c].data.source_id
    ELSE local[c].source_id

\* C33: handling a response for one job changes no other job's row (status,
\* workflow_step, payload), no other job's waiter or future and no other
\* job's messages; what a handler reads besides its own job, the workflow
\* cache, holds what the store holds, so that the handlers of different jobs
\* neither write what the other reads nor read what the other writes.
C33_OtherJobsUntouched ==
    [][/\ \A c \in ResponseTopics : \A y \in WaiterIds :
             (HandlerStep(c) /\ pc[c] # "poll" /\ HandledId(c) # y)
                => /\ y \in JobIds => job_table'[y] = job_table[y]
                   /\ y \in TranslationIds => translation_jobs'[y] = translation_jobs[y]
                   /\ pending_requests'[y] = pending_requests[y]
                   /\ handed'[y] = handed[y]
                   /\ treq'[y] = treq[y]
                   /\ treq[y].future # 0
                         => futures'[treq[y].future] = futures[treq[y].future]
                   /\ PublishedFor(published', y) = PublishedFor(published, y)
       /\ \A n \in StoreNames :
             workflow_cache'[n].found
                => workflow_cache'[n] =
                      get_workflow_config([m \in StoreNames |-> NoWorkflow],
                                          wf_table', n).workflow]_vars

\* both jobs have had a response handled: the transcription job is advanced,
\* the translation job completed and its waiter resolved
C33_Witness ==
    \E j \in JobIds, t \in TranslationIds :
        /\ job_table[j].workflow_step = str(1)
        /\ job_table[j].source_status = IN_PROGRESS
        /\ translation_jobs[t].translations # None
        /\ treq[t].pc = "returned_result"
        /\ \E c \in ResponseTopics : pc[c] = "translation_loaded" /\ HandledId(c) = t
        /\ \E c \in ResponseTopics : pc[c] = "send" /\ HandledId(c) = j

\* C34: there is at most one consumer loop per topic: the consumer table and
\* the task table hold the same topics, each once, a topic has a task
\* exactly when it is in the tables, and until stop_all_consumers is called
\* the tables change only by start_consumer adding, for a topic that is in
\* neither, one consumer and one task; a task is created in no other way.
C34_OneLoopPerTopic ==
    [][/\ consumer_tasks' = consumers'
       /\ \A i, k \in 1..Len(consumers') : consumers'[i] = consumers'[k] => i = k
       /\ \A topic \in ResponseTopics :
             /\ In(topic, consumers') => loops'[topic].pc # "none"
             /\ (stopper'.pc = "idle" /\ ~In(topic, consumers'))
                   => loops'[topic].pc = "none"
             /\ (loops'[topic].pc = "created" /\ loops[topic].pc # "created")
                   => /\ ~In(topic, consumers)
                      /\ loops[topic].pc = "none"
       /\ (stopper'.pc = "idle" /\ consumers' # consumers)
             => \E topic \in ResponseTopics :
                   /\ ~In(topic, consumers)
                   /\ consumers' = Append(consumers, topic)
                   /\ loops'[topic].pc = "created"
                   /\ \A other \in ResponseTopics \ {topic} :
                         loops'[other] = loops[other]]_vars

\* both topics have their consumer, and each loop has taken a message
C34_Witness ==
    /\ Len(consumers) = 2
    /\ consumer_tasks = consumers
    /\ stopper.pc = "idle"
    /\ \A topic \in ResponseTopics :
          /\ loops[topic].pc \in {"poll", "handling"}
          /\ Len(log[topic]) >= 1

\* C35: once the delivery report of a message is there, success or failure,
\* the send_message call that awaits the message completes, whether or not
\* anything else is produced or polled on the producer afterwards.
C35_ReportCompletesSend ==
    \A c \in Senders :
        (sends[c].pc = "awaiting" /\ outbox[sends[c].message].report # "none")
            ~> (sends[c].pc \in {"returned", "raised"})

\* what a handler at `position`, holding `held`, does to the stored state,
\* the cache, the messages and the waiters: computed from the message it
\* holds and from the stored state, the topic of its loop being no argument
Effect(position, held) ==
    LET source_id == held.source_id
        got == get_workflow_config(workflow_cache, wf_table, held.job.source_type)
        adv == _advance_workflow(held.job, got.workflow)
        res == handle_response(pending_requests, futures, source_id,
                               response_data(source_id, held.data))
        same == [job_table |-> job_table, translation_jobs |-> translation_jobs,
                 workflow_cache |-> workflow_cache, published |-> published,
                 pending_requests |-> pending_requests, futures |-> futures]
    IN  CASE position = "loaded" ->
               [same EXCEPT !.job_table[source_id] =
                   commit(@, held.job, _update_job_with_response(held.job, held.data))]
          [] position = "advance" ->
               [same EXCEPT !.job_table[source_id] = commit(@, held.job, adv.job),
                            !.workflow_cache = got.cache]
          [] position = "send" ->
               [same EXCEPT !.published =
                   IF held.out = NoDispatch THEN @ ELSE @ (+) SetToBag({held.out[1]})]
          [] position = "translation_loaded" ->
               [same EXCEPT !.translation_jobs[source_id] =
                   commit(@, held.job,
                          [held.job EXCEPT !.translations = held.data.translations,
                                           !.status = DONE])]
          [] position = "notify" ->
               [same EXCEPT !.pending_requests = res.pending, !.futures = res.futures]
          [] OTHER -> same

\* C36: the effect of process_response is determined by the message and the
\* stored state alone: every step of a handler changes the jobs, the cache,
\* the messages and the waiters as Effect says, whichever topic's loop runs
\* the handler, and the dispatch it prepares is that of the step after the
\* stored one, whichever topic the response came in on.
C36_TopicDoesNotMatter ==
    [][\A c \in ResponseTopics :
          HandlerStep(c)
             => /\ [job_table |-> job_table', translation_jobs |-> translation_jobs',
                    workflow_cache |-> workflow_cache', published |-> published',
                    pending_requests |-> pending_requests', futures |-> futures']
                      = Effect(pc[c], local[c])
                /\ pc[c] = "advance"
                      => LET got == get_workflow_config(workflow_cache, wf_table,
                                                        local[c].job.source_type)
                             adv == _advance_workflow(local[c].job, got.workflow)
                         IN  IF adv.next_step = -1
                             THEN pc'[c] = "poll"
                             ELSE /\ pc'[c] = "send"
                                  /\ local'[c].out =
                                        _send_to_step(local[c].source_id,
                                                      adv.next_step, got.workflow)]_vars

\* the job at step 0 waits for its answer on whisper_response; a response
\* that came in on generic_translate_response has advanced it to step 1
C36_Witness ==
    \E j \in JobIds :
        /\ answered[j] = {"generic_translate_response"}
        /\ pc["generic_translate_response"] = "send"
        /\ local["generic_translate_response"].source_id = j
        /\ job_table[j].workflow_step = str(1)
        /\ job_table[j].source_status = IN_PROGRESS
        /\ pc["whisper_response"] = "poll"
        /\ PublishedFor(published, j) = 1

\* C37: within the consumer loop of one topic the messages are handled one
\* at a time, in the order of their delivery: when a message is polled the
\* handler of every earlier message of the topic has returned or raised (or
\* the message was dropped as undecodable), and only the last message of a
\* topic can be in its handler, the loop being inside "await handler(value)".
C37_OneMessageAtATime ==
    [][\A topic \in ResponseTopics :
          LET before == log[topic]
              after == log'[topic]
          IN  /\ \A i \in 1..Len(after) - 1 :
                    after[i].progress \in {"done", "raised", "dropped"}
              /\ (Len(after) >= 1 /\ after[Len(after)].progress \in {"begun", "half"})
                    => loops'[topic].pc = "handling" \/ loops'[topic].cancel
              /\ Len(after) > Len(before)
                    => /\ Len(after) = Len(before) + 1
                       /\ SubSeq(after, 1, Len(before)) = before
                       /\ loops[topic].pc = "poll"]_vars

\* the second message of a topic is in its handler, the first one's handler
\* has raised
C37_Witness ==
    \E topic \in ResponseTopics :
        /\ Len(log[topic]) = 2
        /\ log[topic][1].progress = "raised"
        /\ log[topic][2].progress = "half"
        /\ loops[topic].pc = "handling"

\* ------------------------------------------------------------------ C38
\* translation requests, their responses, and register_request called once
\* more for an id that is already in use
NextRewait ==
    \/ NextCorrelator
    \/ \E t \in TranslationIds : register_request_call(t)

SpecRewait == InitCorrelatorSpec /\ [][NextRewait]_vars

\* C38: a timeout removes only the registration of the wait that timed out.
\* When the table holds, under the id of a wait that has timed out, a future
\* other than that wait's own, the timeout handler leaves the entry where it
\* is; and a registration whose future is still pending leaves the table only
\* in the step that completes the future.
C38_TimeoutRemovesOwnRegistration ==
    [][\A t \in TranslationIds :
          /\ (/\ treq[t].pc = "timed_out"
              /\ treq'[t].pc = "returned_timeout"
              /\ pending_requests[t] # treq[t].future)
                => pending_requests'[t] = pending_requests[t]
          /\ (/\ pending_requests[t] # 0
              /\ pending_requests'[t] = 0
              /\ futures[pending_requests[t]].state = "pending")
                => futures'[pending_requests[t]].state = "done"]_vars

\* ------------------------------------------------------------------ C39
\* workflows are deleted or deactivated under the jobs and the cache is
\* cleared, while responses carry result fields
NextLapse ==
    \/ \E name \in WorkflowNames, row \in WorkflowRows :
          ~(row.exists /\ row.is_active) /\ StoreUpdate(name, row)
    \/ clear_cache
    \/ Requests
    \/ \E c \in ResponseTopics, data \in PayloadMessages :
          /\ data.language = Absent
          /\ data.output # "bye"
          /\ Deliver(c, data)
    \/ Handlers

SpecLapse == InitMerge /\ [][NextLapse]_vars

\* C39: when the workflow of the job does not resolve as a response is
\* handled, the merge of the response's output and translations is committed
\* all the same (into the job object, and into the stored row when the row is
\* as the handler loaded it), and _advance_workflow then leaves the stored
\* status ERROR (when no other handler has written the status since this one
\* loaded the job), leaves workflow_step and the merged columns as they are,
\* publishes nothing and ends the handler.
C39_UnresolvedAtResponse ==
    [][\A c \in ResponseTopics :
          LET source_id == local[c].source_id
              data == local[c].data
          IN  /\ (/\ pc[c] = "loaded" /\ pc'[c] # "loaded"
                  /\ ~Resolves(local[c].job.source_type))
                    => /\ pc'[c] = "advance"
                       /\ \A col \in DOMAIN ResultKey :
                             Has(data, ResultKey[col])
                             => /\ local'[c].job[col] = data[ResultKey[col]]
                                /\ local[c].job = job_table[source_id]
                                      => job_table'[source_id][col] = data[ResultKey[col]]
                       /\ job_table'[source_id].workflow_step
                            = job_table[source_id].workflow_step
              /\ (/\ pc[c] = "advance" /\ pc'[c] # "advance"
                  /\ ~Resolves(local[c].job.source_type))
                    => /\ local[c].job.source_status = job_table[source_id].source_status
                            => job_table'[source_id].source_status = ERROR
                       /\ job_table'[source_id].source_status \in
                            {ERROR, job_table[source_id].source_status}
                       /\ job_table'[source_id].workflow_step
                            = job_table[source_id].workflow_step
                       /\ job_table'[source_id].transcription
                            = job_table[source_id].transcription
                       /\ job_table'[source_id].translations
                            = job_table[source_id].translations
                       /\ published' = published
                       /\ pc'[c] = "poll"]_vars

C39_Witness ==
    \E j \in JobIds :
        /\ job_table[j].source_status = ERROR
        /\ job_table[j].transcription = "hello"
        /\ job_table[j].translations = "hola"
        /\ job_table[j].workflow_step = str(1)
        /\ req[j] = "started"
        /\ ~Resolves(job_table[j].source_type)
        /\ \A c \in ResponseTopics : pc[c] = "poll"
        /\ BagCardinality(published) = 2

\* ------------------------------------------------------------------ C40
\* C40: every consumer is closed at most once, by its loop's finally clause
\* or by stop_all_consumers and never by both, and close() is never called on
\* a consumer whose poll is still running in the executor thread.
C40_ClosedExactlyOnce ==
    [][\A topic \in ResponseTopics :
          /\ closed'[topic] <= 1
          /\ closed'[topic] > closed[topic] => ~polling[topic]]_vars

====
